---- MODULE Spec2Model ----
(***************************************************************************)
(* Model of the status synchronisation engine of lightbulb:                *)
(* class StatusManager (frontend/src/statusManager.tsx) as driven by its   *)
(* only caller, the useServiceStatus hook, together with the environment   *)
(* objects it owns: the batch / single fetches in flight, the EventSource  *)
(* and WebSocket objects and the browser timers.                           *)
(*                                                                         *)
(* Spec is the coordinator under the hook as time passes; SpecStore is the *)
(* status store with every path a record takes into it; SpecKeys is the    *)
(* store with single fetches of any id; SpecClient is a subscriber that    *)
(* keeps and changes the maps it is given; SpecGraph is the pair of        *)
(* dependency graph queries of the flow views (get_downstream_dependents,  *)
(* get_upstream_dependencies) and the outage set of getElementLayout;      *)
(* SpecDetail is the layout of the detailed view; SpecList is the status   *)
(* tally of the service list; SpecDialog is the add-dependency dialog of   *)
(* the admin page with the relations its POSTs create; SpecOutage is the   *)
(* outage list of the App as the service cards update it; SpecStream is    *)
(* the App's own status stream.                                            *)
(*                                                                         *)
(* Time is in milliseconds.  A timer holds the time left until it fires;   *)
(* Tick lets time pass only while no timer is due, so a timer fires        *)
(* exactly when its delay has elapsed (single event loop, handlers run to  *)
(* completion).                                                            *)
(***************************************************************************)
EXTENDS Integers, Sequences, FiniteSets, Bags, TLC

VARIABLES
    cfg,                    \* constructor options (enableSSE, enableWebSocket, fallbackPollInterval)
    statusMap,              \* this.statusMap
    sseConnection,          \* this.sseConnection: Null or an index into streams
    wsConnection,           \* this.wsConnection: Null or an index into sockets
    pollInterval,           \* this.pollInterval: Null, Cleared or the timer it refers to
    statusUpdateCallbacks,  \* this.statusUpdateCallbacks
    errorCallbacks,         \* this.errorCallbacks
    initPc,                 \* position of initialize(): "idle", "awaiting", "done"
    inflight,               \* bag of HTTP requests awaiting their response
    streams,                \* readyState of every EventSource created so far
    sockets,                \* readyState of every WebSocket created so far
    orphanTimers,           \* interval timers still running that no handle refers to
    reconnectTimers,        \* pending setTimeout reconnect attempts (time left), oldest first
    lastNotify,             \* callback rounds run, messages sent and ignored by the last handler
    disposed,               \* history: cleanup() has been called
    lastChanEvent,          \* history: last open / error / close event of the live channel
    errOwed,                \* history: time left of the accelerated interval since an error event
    pollOwed,               \* history: time left of the poll period promised by an earlier state
    client,                 \* what a client of the coordinator holds: maps and unsubscribe functions
    nodes,                  \* ids of the nodes array given to the graph queries
    edges,                  \* the edges array given to the graph queries, as <<source, target>>
    queryResult,            \* the last graph query and the ids of the nodes it returned
    serviceList,            \* the service list: its rows, its status map, its tallies
    dependencyDialog,       \* the add-dependency dialog of the admin page
    relationsApi,           \* the relations the backend stores and the POSTs in flight
    outageView,             \* App.outageService and the service cards that render it
    appStream               \* the App's sseRef and the EventSource objects it created

\* the coordinator and the environment objects it owns
coordinatorVars ==
    <<cfg, statusMap, sseConnection, wsConnection, pollInterval,
      statusUpdateCallbacks, errorCallbacks, initPc, inflight, streams,
      sockets, orphanTimers, reconnectTimers, lastNotify, disposed,
      lastChanEvent, errOwed, pollOwed>>

\* what lives outside the coordinator: its client's objects and the graph view
outsideVars ==
    <<client, nodes, edges, queryResult, serviceList, dependencyDialog, relationsApi,
      outageView, appStream>>

vars == <<coordinatorVars, outsideVars>>

(***************************************************************************)
(* Bounds of the exploration                                               *)
(***************************************************************************)
MaxInflight == 2        \* requests awaiting a response at the same time
MaxSockets == 3         \* WebSocket objects created during one run

(***************************************************************************)
(* Program constants                                                       *)
(***************************************************************************)
DEFAULT_POLL_INTERVAL == 30000
ACCELERATED_POLL_INTERVAL == 5000
RECONNECT_DELAY == 5000

\* granularity of the clock: half the accelerated interval
TickMs == ACCELERATED_POLL_INTERVAL \div 2

\* this.pollInterval: null, a handle whose timer was cleared, or a running timer
Null == [state |-> "null", period |-> 0, due |-> 0]
Cleared == [state |-> "cleared", period |-> 0, due |-> 0]
\* this.sseConnection / this.wsConnection: null (the objects are numbered from 1)
NoConnection == 0
\* a key an object does not have (undefined)
Absent == [status_code |-> -1, last_check |-> 0]
\* a history variable that holds no time
NotOwed == <<>>

\* options.serviceIds of the modelled coordinator, and one id it does not track
serviceIds == {"s1", "s2"}
Ids == serviceIds \cup {"u1"}
\* the ids the hook's fetchServiceStatus is called with
SingleFetchIds == {"s1"}

StatusCodes == {0, 5}
LastChecks == {1}
ServiceStatus == [status_code : StatusCodes, last_check : LastChecks]
ServiceStatusMap == [Ids -> ServiceStatus \cup {Absent}]
\* the responses of /api/status/all: any records for the tracked ids, and for
\* an id that is not tracked no record or an OK one
Responses ==
    {resp \in ServiceStatusMap :
        \A id \in Ids \ serviceIds :
            resp[id] \in {Absent, [status_code |-> 0, last_check |-> 1]}}

\* the callbacks useServiceStatus registers before it calls initialize()
HookStatusCallbacks == {"setStatusMap"}
HookErrorCallbacks == {"setError"}

\* values of options.fallbackPollInterval the hook is used with (0: not a usable interval)
PollIntervalOptions == {0, 2500}

\* readyState values
CONNECTING == "CONNECTING"
OPEN == "OPEN"
CLOSING == "CLOSING"
CLOSED == "CLOSED"

Min(a, b) == IF a <= b THEN a ELSE b

(***************************************************************************)
(* Pure helpers                                                            *)
(***************************************************************************)

\* constructor: options.fallbackPollInterval || 30000
FALLBACK_POLL_INTERVAL ==
    IF cfg.fallbackPollInterval = 0 THEN DEFAULT_POLL_INTERVAL
    ELSE cfg.fallbackPollInterval
WS_ENABLED == cfg.enableWebSocket
SSE_ENABLED == cfg.enableSSE

\* an interval timer just created with period p
Timer(p) == [state |-> "running", period |-> p, due |-> p]
IsTimer(h) == h.state = "running"

\* The poll timer state is the pair T = [held, orphans]: the handle
\* this.pollInterval and the running timers no handle refers to.
clearInterval(T) ==
    IF IsTimer(T.held) THEN [T EXCEPT !.held = Cleared] ELSE T

\* this.pollInterval = setInterval(() => this.fetchAllStatus(), p)
setPollInterval(T, p) ==
    [held |-> Timer(p),
     orphans |-> T.orphans \cup (IF IsTimer(T.held) THEN {T.held} ELSE {})]

startFallbackPolling(T) == setPollInterval(T, FALLBACK_POLL_INTERVAL)

\* faulty variant of resetFallbackPolling: the running timer is not cleared first
resetFallbackPolling_NoClear(T) ==
    IF T.held # Null THEN startFallbackPolling(T) ELSE T

\* resetFallbackPolling(): runs only while a poll timer is held
resetFallbackPolling(T) ==
    IF T.held # Null THEN startFallbackPolling(clearInterval(T)) ELSE T

\* faulty variant of accelerateFallbackPolling: the running timer is not cleared
accelerateFallbackPolling_NoClear(T) ==
    IF T.held # Null THEN setPollInterval(T, ACCELERATED_POLL_INTERVAL) ELSE T

accelerateFallbackPolling(T) ==
    IF T.held # Null
    THEN setPollInterval(clearInterval(T), ACCELERATED_POLL_INTERVAL)
    ELSE T

\* faulty variant of cleanupPolling: the handle is not set to null
cleanupPolling_KeepsHandle(T) == IF T.held # Null THEN clearInterval(T) ELSE T

\* cleanup(): if (this.pollInterval) { clearInterval(...); this.pollInterval = null }
cleanupPolling(T) ==
    IF T.held # Null THEN [clearInterval(T) EXCEPT !.held = Null] ELSE T

PollTimers == [held |-> pollInterval, orphans |-> orphanTimers]

\* faulty variant of updateServiceStatus: a record older than the stored one is dropped
updateServiceStatus_NewerWins(map, serviceId, status) ==
    IF status.last_check < map[serviceId].last_check THEN map
    ELSE [map EXCEPT ![serviceId] = status]

\* faulty variant of updateServiceStatus: the new record is merged into the
\* stored one, which keeps its last_check
updateServiceStatus_KeepsLastCheck(map, serviceId, status) ==
    LET previous == map[serviceId]
    IN  [map EXCEPT ![serviceId] =
            IF previous = Absent THEN status
            ELSE [status EXCEPT !.last_check = previous.last_check]]

\* this.statusMap[serviceId] = status
updateServiceStatus(map, serviceId, status) == [map EXCEPT ![serviceId] = status]

\* the tracked ids a batch response carries a record for
BatchHits(resp) == {id \in serviceIds : resp[id] # Absent}

\* options.serviceIds in array order
serviceIdOrder == <<"s1", "s2">>

\* fetchAllStatus, after the await: this.statusMap after each updateServiceStatus
\* of the loop over this.serviceIds, every one of which notifies
BatchRounds(map, resp) ==
    LET present(id) == resp[id] # Absent
        hits == SelectSeq(serviceIdOrder, present)
    IN  [k \in 1..Len(hits) |->
            [id \in Ids |-> IF \E j \in 1..k : hits[j] = id THEN resp[id]
                            ELSE map[id]]]

\* faulty variant of ApplyBatch: the loop runs over the keys of the response
ApplyBatch_All(map, resp) ==
    [id \in Ids |-> IF resp[id] # Absent THEN resp[id] ELSE map[id]]

\* fetchAllStatus, after the await: one updateServiceStatus per tracked id present
ApplyBatch(map, resp) ==
    [id \in Ids |-> IF id \in BatchHits(resp) THEN resp[id] ELSE map[id]]

\* getServiceStatus: this.statusMap[serviceId] || null (Absent stands for null)
getServiceStatus(serviceId) == statusMap[serviceId]

\* the channel state is the pair S = [conn, socks]: this.wsConnection and the
\* WebSocket objects; new WebSocket(url) starts in CONNECTING
establishWebSocketConnection(S) ==
    [conn |-> Len(S.socks) + 1, socks |-> Append(S.socks, CONNECTING)]

\* the pair E = [conn, strs]: this.sseConnection and the EventSource objects
establishSSEConnection(E) ==
    [conn |-> Len(E.strs) + 1, strs |-> Append(E.strs, CONNECTING)]

\* setTimeout callback of onclose: reconnect unless a socket that is not closed is held
ReconnectWanted(S) == S.conn = NoConnection \/ S.socks[S.conn] = CLOSED

\* WebSocket.close(): CONNECTING or OPEN becomes CLOSING, the close event follows later
CloseSocket(st) == IF st \in {CONNECTING, OPEN} THEN CLOSING ELSE st

\* A status map object is [alias, entries]: alias tells that the object is
\* this.statusMap itself, otherwise it is an object of its own with these entries.
\* faulty variant of getStatusMap: the map itself is returned
getStatusMap_NoCopy(map) == [alias |-> TRUE, entries |-> map]

\* getStatusMap(): { ...this.statusMap }, a new object with the same entries
getStatusMap(map) == [alias |-> FALSE, entries |-> map]

\* the entries a status map object has now
Entries(h) == IF h.alias THEN statusMap ELSE h.entries

\* callback rounds of one handler: one notifyStatusUpdate call per element of
\* faulty variant of sendSubscribe: only the first socket is subscribed
sendSubscribe_FirstOnly(conn, socks) ==
    IF conn = 1 /\ socks[conn] = OPEN
    THEN <<[socket |-> conn, type |-> "subscribe", services |-> serviceIds]>>
    ELSE <<>>

\* if (this.wsConnection) this.wsConnection.send({type: 'subscribe', services:
\* this.serviceIds}): the messages that leave, each with the socket it leaves
\* on; send() transmits on an OPEN socket only
sendSubscribe(conn, socks) ==
    IF conn # NoConnection /\ socks[conn] = OPEN
    THEN <<[socket |-> conn, type |-> "subscribe", services |-> serviceIds]>>
    ELSE <<>>

\* snapshots (this.statusMap at the time of the call) and nError notifyError
\* calls, each invoking every callback registered at that time; a status round
\* hands the same getStatusMap() object to every callback
Notify(snapshots, nError) ==
    [status |-> IF statusUpdateCallbacks = {} THEN 0 ELSE Len(snapshots),
     error |-> IF errorCallbacks = {} THEN 0 ELSE nError,
     to |-> IF snapshots = <<>> THEN {} ELSE statusUpdateCallbacks,
     maps |-> IF statusUpdateCallbacks = {} THEN <<>>
              ELSE [k \in 1..Len(snapshots) |-> getStatusMap(snapshots[k])],
     sent |-> <<>>,
     ignored |-> <<>>]

\* an onmessage handler that takes neither the update branch nor the catch
\* block: nothing is called; the id of the message it passed over is noted
Ignore(m) ==
    [Notify(<<>>, 0) EXCEPT !.ignored = IF m.service_id \in Ids THEN <<m.service_id>> ELSE <<>>]

(***************************************************************************)
(* Requests in flight                                                      *)
(***************************************************************************)
Request(kind, id) == [kind |-> kind, id |-> id, stale |-> FALSE]
BagAdd(B, e) == B (+) SetToBag({e})
BagRemove(B, e) == B (-) SetToBag({e})
\* history: at cleanup() every request in flight is marked stale
MarkStale(B) ==
    LET S == {[e EXCEPT !.stale = TRUE] : e \in BagToSet(B)}
    IN  [s \in S |-> CopiesIn(s, B) + CopiesIn([s EXCEPT !.stale = FALSE], B)]
CanRequest == BagCardinality(inflight) < MaxInflight

(***************************************************************************)
(* History variables                                                       *)
(***************************************************************************)
\* time left until a poll is owed, after a step that leaves the handle newHeld
NextPollOwed(newHeld, newDisposed, restart) ==
    IF newDisposed \/ ~IsTimer(newHeld) THEN NotOwed
    ELSE IF restart \/ pollOwed = NotOwed THEN <<newHeld.due>>
    ELSE <<Min(pollOwed[1], newHeld.period)>>

\* an error event while the poller runs starts the accelerated interval
NextErrOwed(isError) ==
    IF isError /\ IsTimer(pollInterval) /\ ~disposed /\ errOwed = NotOwed
    THEN <<ACCELERATED_POLL_INTERVAL>>
    ELSE errOwed

Elapse(x, d) == IF x = NotOwed THEN NotOwed ELSE IF x[1] < d THEN <<-1>> ELSE <<x[1] - d>>

(***************************************************************************)
(* initialize()                                                            *)
(***************************************************************************)
\* the objects the coordinator owns: poll timers, sockets and streams
Owned == [T |-> PollTimers,
          S |-> [conn |-> wsConnection, socks |-> sockets],
          E |-> [conn |-> sseConnection, strs |-> streams]]

SetOwned(X) ==
    /\ pollInterval' = X.T.held
    /\ orphanTimers' = X.T.orphans
    /\ wsConnection' = X.S.conn
    /\ sockets' = X.S.socks
    /\ sseConnection' = X.E.conn
    /\ streams' = X.E.strs

\* faulty variant of OpenChannel: the second test is not an else-branch
OpenChannel_NoElse(X) ==
    LET Y == IF WS_ENABLED
             THEN [X EXCEPT !.S = establishWebSocketConnection(X.S)] ELSE X
    IN  IF SSE_ENABLED THEN [Y EXCEPT !.E = establishSSEConnection(Y.E)] ELSE Y

\* initialize(): if (WS_ENABLED) ... else if (SSE_ENABLED) ...
OpenChannel(X) ==
    IF WS_ENABLED THEN [X EXCEPT !.S = establishWebSocketConnection(X.S)]
    ELSE IF SSE_ENABLED THEN [X EXCEPT !.E = establishSSEConnection(X.E)]
    ELSE X

\* initialize() after the await: open the channel, start the poller
ContinueInitialize(X) ==
    LET Y == OpenChannel(X)
    IN  [Y EXCEPT !.T = startFallbackPolling(Y.T)]

\* faulty variant of InitializeAfterFetch: a failed fetch rejects initialize()
InitializeAfterFetch_Rejects(X, ok) == IF ok THEN ContinueInitialize(X) ELSE X

\* fetchAllStatus catches its own failure, so initialize() goes on either way
InitializeAfterFetch(X, ok) == ContinueInitialize(X)

\* manager.initialize(), up to the await of fetchAllStatus()
Initialize ==
    /\ initPc = "idle"
    /\ ~disposed
    /\ initPc' = "awaiting"
    /\ inflight' = BagAdd(inflight, Request("init", "-"))
    /\ lastNotify' = Notify(<<>>, 0)
    /\ UNCHANGED <<outsideVars, cfg, statusMap, sseConnection, wsConnection, pollInterval,
                   statusUpdateCallbacks, errorCallbacks, streams, sockets,
                   orphanTimers, reconnectTimers, disposed,
                   lastChanEvent, errOwed, pollOwed>>

\* the initial batch fetch resolves with resp: apply it, then go on
InitFetchResolves(e, resp) ==
    /\ e \in BagToSet(inflight) /\ e.kind = "init"
    /\ statusMap' = ApplyBatch(statusMap, resp)
    /\ inflight' = BagRemove(inflight, e)
    /\ lastNotify' = Notify(BatchRounds(statusMap, resp), 0)
    /\ SetOwned(InitializeAfterFetch(Owned, TRUE))
    /\ initPc' = "done"
    /\ pollOwed' = NextPollOwed(pollInterval', disposed, TRUE)
    /\ UNCHANGED <<outsideVars, cfg, statusUpdateCallbacks, errorCallbacks, reconnectTimers,
                   disposed, lastChanEvent, errOwed>>

\* the initial batch fetch fails: notifyError, then go on
InitFetchFails(e) ==
    /\ e \in BagToSet(inflight) /\ e.kind = "init"
    /\ inflight' = BagRemove(inflight, e)
    /\ lastNotify' = Notify(<<>>, 1)
    /\ SetOwned(InitializeAfterFetch(Owned, FALSE))
    /\ initPc' = "done"
    /\ pollOwed' = NextPollOwed(pollInterval', disposed, TRUE)
    /\ UNCHANGED <<outsideVars, cfg, statusMap, statusUpdateCallbacks, errorCallbacks,
                   reconnectTimers, disposed, lastChanEvent, errOwed>>

(***************************************************************************)
(* cleanup()                                                               *)
(***************************************************************************)
\* faulty variant of clearCallbacks: the Set keeps its callbacks
clearCallbacks_Keeps(callbacks) == callbacks

\* this.statusUpdateCallbacks.clear(); this.errorCallbacks.clear()
clearCallbacks(callbacks) == {}

Cleanup ==
    /\ sseConnection' = NoConnection
    /\ streams' = IF sseConnection # NoConnection
                  THEN [streams EXCEPT ![sseConnection] = CLOSED] ELSE streams
    /\ wsConnection' = NoConnection
    /\ sockets' = IF wsConnection # NoConnection
                  THEN [sockets EXCEPT ![wsConnection] = CloseSocket(@)] ELSE sockets
    /\ LET T == cleanupPolling(PollTimers)
       IN  pollInterval' = T.held /\ orphanTimers' = T.orphans
    /\ statusUpdateCallbacks' = clearCallbacks(statusUpdateCallbacks)
    /\ errorCallbacks' = clearCallbacks(errorCallbacks)
    /\ lastNotify' = Notify(<<>>, 0)
    /\ disposed' = TRUE
    /\ inflight' = MarkStale(inflight)
    /\ errOwed' = NotOwed
    /\ pollOwed' = NotOwed
    /\ UNCHANGED <<outsideVars, cfg, statusMap, initPc, reconnectTimers, lastChanEvent>>

(***************************************************************************)
(* fetchAllStatus() and fetchServiceStatus() called through the hook, and  *)
(* the responses to them and to the poller's requests                      *)
(***************************************************************************)
\* refresh() of the hook: fetchAllStatus() up to its await
Refresh ==
    /\ ~disposed
    /\ CanRequest
    /\ inflight' = BagAdd(inflight, Request("batch", "-"))
    /\ lastNotify' = Notify(<<>>, 0)
    /\ pollOwed' = NextPollOwed(pollInterval, disposed, FALSE)
    /\ UNCHANGED <<outsideVars, cfg, statusMap, sseConnection, wsConnection, pollInterval,
                   statusUpdateCallbacks, errorCallbacks, initPc, streams, sockets,
                   orphanTimers, reconnectTimers, disposed,
                   lastChanEvent, errOwed>>

\* fetchServiceStatus(serviceId) of the hook, up to its await
FetchServiceStatus(serviceId) ==
    /\ ~disposed
    /\ CanRequest
    /\ inflight' = BagAdd(inflight, Request("single", serviceId))
    /\ lastNotify' = Notify(<<>>, 0)
    /\ pollOwed' = NextPollOwed(pollInterval, disposed, FALSE)
    /\ UNCHANGED <<outsideVars, cfg, statusMap, sseConnection, wsConnection, pollInterval,
                   statusUpdateCallbacks, errorCallbacks, initPc, streams, sockets,
                   orphanTimers, reconnectTimers, disposed,
                   lastChanEvent, errOwed>>

\* what a settled request leaves alone
SettleFrame ==
    /\ pollOwed' = NextPollOwed(pollInterval, disposed, FALSE)
    /\ UNCHANGED <<outsideVars, cfg, sseConnection, wsConnection, pollInterval,
                   statusUpdateCallbacks, errorCallbacks, initPc, streams, sockets,
                   orphanTimers, reconnectTimers, disposed,
                   lastChanEvent, errOwed>>

BatchResolves(e, resp) ==
    /\ e \in BagToSet(inflight) /\ e.kind = "batch"
    /\ statusMap' = ApplyBatch(statusMap, resp)
    /\ inflight' = BagRemove(inflight, e)
    /\ lastNotify' = Notify(BatchRounds(statusMap, resp), 0)
    /\ SettleFrame

\* faulty variant of BatchFails: the catch block swallows the failure
BatchFails_Silent(e) ==
    /\ e \in BagToSet(inflight) /\ e.kind = "batch"
    /\ inflight' = BagRemove(inflight, e)
    /\ lastNotify' = Notify(<<>>, 0)
    /\ UNCHANGED statusMap
    /\ SettleFrame

\* fetchAllStatus: the request fails, the catch block calls notifyError
BatchFails(e) ==
    /\ e \in BagToSet(inflight) /\ e.kind = "batch"
    /\ inflight' = BagRemove(inflight, e)
    /\ lastNotify' = Notify(<<>>, 1)
    /\ UNCHANGED statusMap
    /\ SettleFrame

SingleResolves(e, status) ==
    /\ e \in BagToSet(inflight) /\ e.kind = "single"
    /\ inflight' = BagRemove(inflight, e)
    /\ statusMap' = updateServiceStatus(statusMap, e.id, status)
    /\ lastNotify' = Notify(<<statusMap'>>, 0)
    /\ SettleFrame

SingleFails(e) ==
    /\ e \in BagToSet(inflight) /\ e.kind = "single"
    /\ inflight' = BagRemove(inflight, e)
    /\ lastNotify' = Notify(<<>>, 1)
    /\ UNCHANGED statusMap
    /\ SettleFrame

(***************************************************************************)
(* Live channel, stream variant (EventSource)                              *)
(***************************************************************************)
\* event.data: text that does not parse, or a status update object
Malformed == [type |-> "malformed", service_id |-> "-", status |-> Absent]
SseMessages ==
    {Malformed} \cup [type : {"status"}, service_id : Ids, status : ServiceStatus]

\* what an event of the stream leaves alone
SseFrame ==
    UNCHANGED <<outsideVars, cfg, sseConnection, wsConnection, statusUpdateCallbacks,
                errorCallbacks, initPc, inflight, sockets, reconnectTimers,
                disposed>>

\* onopen: logs only
SseOpen(i) ==
    /\ streams[i] = CONNECTING
    /\ streams' = [streams EXCEPT ![i] = OPEN]
    /\ lastChanEvent' = "open"
    /\ lastNotify' = Notify(<<>>, 0)
    /\ pollOwed' = NextPollOwed(pollInterval, disposed, FALSE)
    /\ UNCHANGED <<statusMap, pollInterval, orphanTimers, errOwed>>
    /\ SseFrame

\* faulty variant of SseDispatch: JSON.parse is outside the try block
SseDispatch_Uncaught(m) ==
    IF m.type = "malformed" THEN "ignore"
    ELSE IF m.service_id \in serviceIds THEN "update"
    ELSE "ignore"

\* onmessage: the branch taken; JSON.parse throws into the catch block
SseDispatch(m) ==
    IF m.type = "malformed" THEN "catch"
    ELSE IF m.service_id \in serviceIds THEN "update"
    ELSE "ignore"

\* onmessage
SseMessage(i, m) ==
    /\ streams[i] = OPEN
    /\ IF SseDispatch(m) = "catch"
       THEN /\ lastNotify' = Notify(<<>>, 1)
            /\ UNCHANGED <<statusMap, pollInterval, orphanTimers>>
            /\ pollOwed' = NextPollOwed(pollInterval, disposed, FALSE)
       ELSE IF SseDispatch(m) = "update"
       THEN /\ statusMap' = updateServiceStatus(statusMap, m.service_id, m.status)
            /\ lastNotify' = Notify(<<statusMap'>>, 0)
            /\ LET T == resetFallbackPolling(PollTimers)
               IN  pollInterval' = T.held /\ orphanTimers' = T.orphans
            /\ pollOwed' = NextPollOwed(pollInterval', disposed, TRUE)
       ELSE /\ lastNotify' = Ignore(m)
            /\ UNCHANGED <<statusMap, pollInterval, orphanTimers>>
            /\ pollOwed' = NextPollOwed(pollInterval, disposed, FALSE)
    /\ UNCHANGED <<streams, lastChanEvent, errOwed>>
    /\ SseFrame

\* onerror; the EventSource either retries (CONNECTING) or gives up (CLOSED)
SseError(i, after) ==
    /\ streams[i] \in {CONNECTING, OPEN}
    /\ streams' = [streams EXCEPT ![i] = after]
    /\ LET T == accelerateFallbackPolling(PollTimers)
       IN  pollInterval' = T.held /\ orphanTimers' = T.orphans
    /\ lastChanEvent' = "error"
    /\ lastNotify' = Notify(<<>>, 0)
    /\ errOwed' = NextErrOwed(TRUE)
    /\ pollOwed' = NextPollOwed(pollInterval', disposed, FALSE)
    /\ UNCHANGED statusMap
    /\ SseFrame

(***************************************************************************)
(* Live channel, socket variant (WebSocket)                                *)
(***************************************************************************)
SubscriptionConfirmed ==
    [type |-> "subscription_confirmed", service_id |-> "-", status |-> Absent]
WsMessages ==
    {Malformed, SubscriptionConfirmed}
    \cup [type : {"status_update"}, service_id : Ids,
          status : ServiceStatus \cup {Absent}]

WsFrame ==
    UNCHANGED <<outsideVars, cfg, sseConnection, wsConnection, statusUpdateCallbacks,
                errorCallbacks, initPc, inflight, streams, disposed>>

\* onopen: sends the subscribe message on this.wsConnection, if there is one
WsOpen(i) ==
    /\ sockets[i] = CONNECTING
    /\ sockets' = [sockets EXCEPT ![i] = OPEN]
    /\ lastChanEvent' = "open"
    /\ lastNotify' = [Notify(<<>>, 0) EXCEPT !.sent = sendSubscribe(wsConnection, sockets')]
    /\ pollOwed' = NextPollOwed(pollInterval, disposed, FALSE)
    /\ UNCHANGED <<statusMap, pollInterval, orphanTimers, reconnectTimers, errOwed>>
    /\ WsFrame

\* faulty variant of WsDispatch: the id is not looked up in this.serviceIds
WsDispatch_AnyId(m) ==
    IF m.type = "malformed" THEN "catch"
    ELSE IF m.type = "status_update" THEN "update"
    ELSE "ignore"

\* onmessage: the branch taken; JSON.parse throws into the catch block
WsDispatch(m) ==
    IF m.type = "malformed" THEN "catch"
    ELSE IF m.type = "status_update" /\ m.service_id \in serviceIds THEN "update"
    ELSE "ignore"

\* onmessage; a socket delivers messages only while OPEN
WsMessage(i, m) ==
    /\ sockets[i] = OPEN
    /\ IF WsDispatch(m) = "catch"
       THEN /\ lastNotify' = Notify(<<>>, 1)
            /\ UNCHANGED <<statusMap, pollInterval, orphanTimers>>
            /\ pollOwed' = NextPollOwed(pollInterval, disposed, FALSE)
       ELSE IF WsDispatch(m) = "update"
       THEN /\ statusMap' = updateServiceStatus(statusMap, m.service_id, m.status)
            /\ lastNotify' = Notify(<<statusMap'>>, 0)
            /\ LET T == resetFallbackPolling(PollTimers)
               IN  pollInterval' = T.held /\ orphanTimers' = T.orphans
            /\ pollOwed' = NextPollOwed(pollInterval', disposed, TRUE)
       ELSE /\ lastNotify' = Ignore(m)
            /\ UNCHANGED <<statusMap, pollInterval, orphanTimers>>
            /\ pollOwed' = NextPollOwed(pollInterval, disposed, FALSE)
    /\ UNCHANGED <<sockets, lastChanEvent, reconnectTimers, errOwed>>
    /\ WsFrame

\* onclose: accelerate, then setTimeout(reconnect, 5000)
OnClose(i) ==
    /\ sockets' = [sockets EXCEPT ![i] = CLOSED]
    /\ LET T == accelerateFallbackPolling(PollTimers)
       IN  pollInterval' = T.held /\ orphanTimers' = T.orphans
    /\ reconnectTimers' = Append(reconnectTimers, RECONNECT_DELAY)
    /\ lastChanEvent' = "close"
    /\ pollOwed' = NextPollOwed(pollInterval', disposed, FALSE)
    /\ UNCHANGED statusMap
    /\ WsFrame

\* the connection closes cleanly (by the server, or completing close()): close event
WsClose(i) ==
    /\ sockets[i] \in {OPEN, CLOSING}
    /\ Len(sockets) < MaxSockets
    /\ OnClose(i)
    /\ lastNotify' = Notify(<<>>, 0)
    /\ UNCHANGED errOwed

\* the connection fails: one task fires the error event, then the close event
WsFail(i) ==
    /\ sockets[i] \in {CONNECTING, OPEN, CLOSING}
    /\ Len(sockets) < MaxSockets
    /\ OnClose(i)
    /\ lastNotify' = Notify(<<>>, 1)
    /\ errOwed' = NextErrOwed(TRUE)

(***************************************************************************)
(* Timers                                                                  *)
(***************************************************************************)
\* the interval timers that are running
RunningPollTimers ==
    orphanTimers \cup (IF IsTimer(pollInterval) THEN {pollInterval} ELSE {})

PollDue == \E t \in RunningPollTimers : t.due = 0

Dues ==
    {t.due : t \in RunningPollTimers}
    \cup {reconnectTimers[k] : k \in 1..Len(reconnectTimers)}

\* an interval timer fires: fetchAllStatus() up to its await; the timer runs on
PollFire(t) ==
    /\ t \in RunningPollTimers
    /\ t.due = 0
    /\ CanRequest
    /\ IF t = pollInterval
       THEN pollInterval' = Timer(t.period) /\ UNCHANGED orphanTimers
       ELSE /\ orphanTimers' = (orphanTimers \ {t}) \cup {Timer(t.period)}
            /\ UNCHANGED pollInterval
    /\ inflight' = BagAdd(inflight, Request("batch", "-"))
    /\ lastNotify' = Notify(<<>>, 0)
    /\ errOwed' = NotOwed
    /\ pollOwed' = NextPollOwed(pollInterval', disposed, TRUE)
    /\ UNCHANGED <<outsideVars, cfg, statusMap, sseConnection, wsConnection,
                   statusUpdateCallbacks, errorCallbacks, initPc, streams, sockets,
                   reconnectTimers, disposed, lastChanEvent>>

\* faulty variant of AfterReconnectFires: the attempt was scheduled with setInterval
AfterReconnectFires_Repeats(timers) == Append(Tail(timers), RECONNECT_DELAY)

\* setTimeout: the attempt is gone once it has fired
AfterReconnectFires(timers) == Tail(timers)

\* the reconnect attempt fires (timers of equal delay fire in creation order,
\* and the poll timer of the same onclose was created before it)
ReconnectFire ==
    /\ reconnectTimers # <<>>
    /\ Head(reconnectTimers) = 0
    /\ ~PollDue
    /\ reconnectTimers' = AfterReconnectFires(reconnectTimers)
    /\ LET S == [conn |-> wsConnection, socks |-> sockets]
           R == IF ReconnectWanted(S) THEN establishWebSocketConnection(S) ELSE S
       IN  wsConnection' = R.conn /\ sockets' = R.socks
    /\ lastNotify' = Notify(<<>>, 0)
    /\ pollOwed' = NextPollOwed(pollInterval, disposed, FALSE)
    /\ UNCHANGED <<outsideVars, cfg, statusMap, sseConnection, pollInterval,
                   statusUpdateCallbacks, errorCallbacks, initPc, inflight, streams,
                   orphanTimers, disposed, lastChanEvent, errOwed>>

\* time passes, up to the next timer that is due
Tick ==
    /\ Dues # {}
    /\ \A d \in Dues : d > 0
    /\ LET d == CHOOSE x \in Dues \cup {TickMs} : \A y \in Dues \cup {TickMs} : x <= y
       IN  /\ pollInterval' = IF IsTimer(pollInterval)
                              THEN [pollInterval EXCEPT !.due = @ - d]
                              ELSE pollInterval
           /\ orphanTimers' = {[t EXCEPT !.due = @ - d] : t \in orphanTimers}
           /\ reconnectTimers' = [k \in 1..Len(reconnectTimers) |->
                                     reconnectTimers[k] - d]
           /\ errOwed' = Elapse(errOwed, d)
           /\ pollOwed' = Elapse(pollOwed, d)
    /\ lastNotify' = Notify(<<>>, 0)
    /\ UNCHANGED <<outsideVars, cfg, statusMap, sseConnection, wsConnection,
                   statusUpdateCallbacks, errorCallbacks, initPc, inflight, streams,
                   sockets, disposed, lastChanEvent>>

(***************************************************************************)
(* Specification                                                           *)
(***************************************************************************)
\* new StatusManager(options): the fields after the constructor has run
Constructed ==
    /\ statusMap = [id \in Ids |-> Absent]
    /\ sseConnection = NoConnection
    /\ wsConnection = NoConnection
    /\ pollInterval = Null
    /\ initPc = "idle"
    /\ inflight = EmptyBag
    /\ streams = <<>>
    /\ sockets = <<>>
    /\ orphanTimers = {}
    /\ reconnectTimers = <<>>
    /\ lastNotify = [status |-> 0, error |-> 0, to |-> {}, maps |-> <<>>, sent |-> <<>>,
                     ignored |-> <<>>]
    /\ disposed = FALSE
    /\ lastChanEvent = "none"
    /\ errOwed = NotOwed
    /\ pollOwed = NotOwed

\* no graph query has been made
NoQuery ==
    [fn |-> "none", target |-> "-", roots |-> {}, result |-> {}, expanded |-> <<>>]

\* no service list is shown
NoServiceList ==
    [services |-> <<>>, statusMap |-> <<>>, shown |-> "none", counts |-> <<>>]

\* the add-dependency dialog as the page starts: closed, nothing selected;
\* lastAdded is the relation the dialog appended last, as <<source, target>>
ClosedDialog ==
    [selectedNode |-> "", isDependencyDialogOpen |-> FALSE,
     newDependencyServiceId |-> "", isDependencySubmitting |-> FALSE,
     lastAdded |-> <<>>]

\* a backend that holds no relation and has no POST to answer
NoRelationsApi == [relations |-> {}, posts |-> {}]

\* no service card is mounted and no service is in outage
NoOutageView == [outageService |-> <<>>, cards |-> <<>>, statusData |-> <<>>]

\* the App's event-stream effect has not run: sseRef.current is undefined
NoAppStream ==
    [sseRef |-> NoConnection, sources |-> <<>>, enabled |-> FALSE, invalidated |-> {}]

\* the admin page and the service list are not looked at
NoAdminPage ==
    /\ serviceList = NoServiceList
    /\ dependencyDialog = ClosedDialog
    /\ relationsApi = NoRelationsApi
    /\ outageView = NoOutageView
    /\ appStream = NoAppStream

\* a client that holds nothing: no map it called getStatusMap() for, no map
\* handed to its callbacks, no unsubscribe function
NoClient == [returned |-> <<>>, handed |-> <<>>, unsubscribe |-> {}]

\* the coordinator as the hook uses it: nothing outside it is looked at
NothingOutside ==
    /\ client = NoClient
    /\ nodes = {}
    /\ edges = {}
    /\ queryResult = NoQuery
    /\ NoAdminPage

\* the fields and objects a subscription or a look at the map leaves alone
ownedVars ==
    <<cfg, sseConnection, wsConnection, pollInterval, errorCallbacks, initPc,
      inflight, streams, sockets, orphanTimers, reconnectTimers, disposed,
      lastChanEvent, errOwed, pollOwed>>
graphVars == <<nodes, edges, queryResult>>
adminVars == <<serviceList, dependencyDialog, relationsApi, outageView, appStream>>

\* new StatusManager(options), and the hook's two subscriptions
Init ==
    /\ cfg \in [enableSSE : BOOLEAN, enableWebSocket : BOOLEAN,
                fallbackPollInterval : PollIntervalOptions]
    /\ Constructed
    /\ statusUpdateCallbacks = HookStatusCallbacks
    /\ errorCallbacks = HookErrorCallbacks
    /\ NothingOutside

\* The steps of the coordinator under the hook as time passes.  The hook's
\* fetchServiceStatus(id) touches neither the channel nor the timers: it is
\* part of NextStore and NextClient.
Next ==
    \/ Initialize
    \/ \E e \in BagToSet(inflight), resp \in Responses : InitFetchResolves(e, resp)
    \/ \E e \in BagToSet(inflight) : InitFetchFails(e)
    \/ Cleanup
    \/ Refresh
    \/ \E e \in BagToSet(inflight), resp \in Responses : BatchResolves(e, resp)
    \/ \E e \in BagToSet(inflight) : BatchFails(e)
    \/ \E i \in DOMAIN streams : SseOpen(i)
    \/ \E i \in DOMAIN streams, m \in SseMessages : SseMessage(i, m)
    \/ \E i \in DOMAIN streams, after \in {CONNECTING, CLOSED} : SseError(i, after)
    \/ \E i \in DOMAIN sockets : WsOpen(i)
    \/ \E i \in DOMAIN sockets, m \in WsMessages : WsMessage(i, m)
    \/ \E i \in DOMAIN sockets : WsClose(i)
    \/ \E i \in DOMAIN sockets : WsFail(i)
    \/ \E t \in RunningPollTimers : PollFire(t)
    \/ ReconnectFire
    \/ Tick

Spec == Init /\ [][Next]_vars

(***************************************************************************)
(* The status store on its own: every way a record reaches this.statusMap  *)
(* while the channel is up, with records that differ in their last_check,  *)
(* and no passage of time                                                  *)
(***************************************************************************)
\* last_check values in time order
OrderedChecks == {1, 2}
TimedStatus == [status_code : StatusCodes, last_check : OrderedChecks]
\* responses: as Responses, with records of either time for the tracked ids
TimedStatusMap ==
    {resp \in [Ids -> TimedStatus \cup {Absent}] :
        \A id \in Ids \ serviceIds :
            resp[id] \in {Absent, [status_code |-> 0, last_check |-> 1]}}
TimedSseMessages ==
    {Malformed} \cup [type : {"status"}, service_id : Ids, status : TimedStatus]

\* useServiceStatus(serviceIds) without options: enableSSE ?? true,
\* enableWebSocket ?? false, fallbackPollInterval ?? 30000
DefaultOptions ==
    [enableSSE |-> TRUE, enableWebSocket |-> FALSE,
     fallbackPollInterval |-> DEFAULT_POLL_INTERVAL]

InitStore ==
    /\ cfg = DefaultOptions
    /\ Constructed
    /\ statusUpdateCallbacks = HookStatusCallbacks
    /\ errorCallbacks = HookErrorCallbacks
    /\ NothingOutside

NextStore ==
    \/ Initialize
    \/ \E e \in BagToSet(inflight), resp \in TimedStatusMap : InitFetchResolves(e, resp)
    \/ \E e \in BagToSet(inflight) : InitFetchFails(e)
    \/ Refresh
    \/ \E id \in SingleFetchIds : FetchServiceStatus(id)
    \/ \E e \in BagToSet(inflight), resp \in TimedStatusMap : BatchResolves(e, resp)
    \/ \E e \in BagToSet(inflight) : BatchFails(e)
    \/ \E e \in BagToSet(inflight), status \in TimedStatus : SingleResolves(e, status)
    \/ \E e \in BagToSet(inflight) : SingleFails(e)
    \/ \E i \in DOMAIN streams : SseOpen(i)
    \/ \E i \in DOMAIN streams, m \in TimedSseMessages : SseMessage(i, m)

SpecStore == InitStore /\ [][NextStore]_vars

(***************************************************************************)
(* The keys of the status map: batch fetches, live messages and             *)
(* fetchServiceStatus(serviceId) called with any id, tracked or not         *)
(***************************************************************************)
\* fetchServiceStatus(serviceId: string) takes any id
AnyFetchIds == Ids

NextKeys ==
    \/ Initialize
    \/ \E e \in BagToSet(inflight), resp \in Responses : InitFetchResolves(e, resp)
    \/ \E e \in BagToSet(inflight) : InitFetchFails(e)
    \/ Refresh
    \/ \E id \in AnyFetchIds : FetchServiceStatus(id)
    \/ \E e \in BagToSet(inflight), resp \in Responses : BatchResolves(e, resp)
    \/ \E e \in BagToSet(inflight) : BatchFails(e)
    \/ \E e \in BagToSet(inflight), status \in ServiceStatus : SingleResolves(e, status)
    \/ \E e \in BagToSet(inflight) : SingleFails(e)
    \/ \E i \in DOMAIN streams : SseOpen(i)
    \/ \E i \in DOMAIN streams, m \in SseMessages : SseMessage(i, m)

SpecKeys == InitStore /\ [][NextKeys]_vars

(***************************************************************************)
(* A client of the coordinator other than the hook: it subscribes and      *)
(* unsubscribes callbacks, keeps the maps it is handed and the maps it     *)
(* asks for, and changes the entries of the maps it keeps                  *)
(***************************************************************************)
ClientCallbacks == {"cb1", "cb2"}
\* the keys the client assigns or deletes in a map it keeps
MutatedIds == {"s1", "u1"}
ClientSlots == {"returned", "handed"}

\* onStatusUpdate: this.statusUpdateCallbacks.add(callback)
subscribe(callbacks, cb) == callbacks \cup {cb}

\* faulty variant of unsubscribe: the set is cleared
unsubscribe_All(callbacks, cb) == {}

\* the function onStatusUpdate returns: this.statusUpdateCallbacks.delete(callback)
unsubscribe(callbacks, cb) == callbacks \ {cb}

\* manager.onStatusUpdate(cb); the client keeps the function it returns
OnStatusUpdate(cb) ==
    /\ statusUpdateCallbacks' = subscribe(statusUpdateCallbacks, cb)
    /\ client' = [client EXCEPT !.unsubscribe = @ \cup {cb}]
    /\ lastNotify' = Notify(<<>>, 0)
    /\ UNCHANGED <<statusMap, ownedVars, graphVars, adminVars>>

\* the client calls the function onStatusUpdate(cb) returned, any number of times
Unsubscribe(cb) ==
    /\ cb \in client.unsubscribe
    /\ statusUpdateCallbacks' = unsubscribe(statusUpdateCallbacks, cb)
    /\ lastNotify' = Notify(<<>>, 0)
    /\ UNCHANGED <<statusMap, ownedVars, client, graphVars, adminVars>>

\* the client calls manager.getStatusMap() and keeps the result
GetStatusMap ==
    /\ client' = [client EXCEPT !.returned = <<getStatusMap(statusMap)>>]
    /\ UNCHANGED <<coordinatorVars, graphVars, adminVars>>

\* a callback of the client keeps the map it is handed in round k
KeepHanded(k) ==
    /\ k \in DOMAIN lastNotify.maps
    /\ lastNotify.to \cap ClientCallbacks # {}
    /\ client' = [client EXCEPT !.handed = <<lastNotify.maps[k]>>]
    /\ UNCHANGED <<coordinatorVars, graphVars, adminVars>>

\* the client assigns map[id] = v, or deletes map[id] (v = Absent), in a map
\* it keeps; when that object is this.statusMap itself, the store changes
Mutate(slot, id, v) ==
    /\ client[slot] # <<>>
    /\ LET h == client[slot][1]
       IN  IF h.alias
           THEN /\ statusMap' = [statusMap EXCEPT ![id] = v]
                /\ UNCHANGED client
           ELSE /\ client' = [client EXCEPT ![slot] = <<[h EXCEPT !.entries[id] = v]>>]
                /\ UNCHANGED statusMap
    /\ UNCHANGED <<statusUpdateCallbacks, lastNotify, ownedVars, graphVars, adminVars>>

\* new StatusManager(options) with no subscriber yet
InitClient ==
    /\ cfg = DefaultOptions
    /\ Constructed
    /\ statusUpdateCallbacks = {}
    /\ errorCallbacks = {}
    /\ NothingOutside

NextClient ==
    \/ \E cb \in ClientCallbacks : OnStatusUpdate(cb)
    \/ \E cb \in ClientCallbacks : Unsubscribe(cb)
    \/ GetStatusMap
    \/ \E k \in DOMAIN lastNotify.maps : KeepHanded(k)
    \/ \E slot \in ClientSlots, id \in MutatedIds, v \in ServiceStatus \cup {Absent} :
          Mutate(slot, id, v)
    \/ \E id \in SingleFetchIds : FetchServiceStatus(id)
    \/ \E e \in BagToSet(inflight), status \in ServiceStatus : SingleResolves(e, status)

SpecClient == InitClient /\ [][NextClient]_vars

(***************************************************************************)
(* The dependency graph queries of the flow views: get_downstream_dependents *)
(* and get_upstream_dependencies over a nodes array and an edges array     *)
(***************************************************************************)
\* the service ids that occur as node ids and as edge ends
GraphIds == {"A", "B", "C"}

RECURSIVE findDownstream(_, _, _)
RECURSIVE forEachDependentEdge(_, _, _)

\* the two Sets a query starts with, and the ids it has expanded, in order
NewTraversal == [visited |-> {}, found |-> {}, expanded |-> <<>>]

\* a traversal that adds the direct dependents and does not descend
findDownstream_Direct(serviceId, acc, E) ==
    [acc EXCEPT !.found = @ \cup {edge[2] : edge \in {e \in E : e[1] = serviceId}}]

\* a traversal that bounds the number of expansions instead of recording
\* the ids it has visited
findDownstream_Capped(serviceId, acc, E) ==
    IF Len(acc.expanded) > Cardinality(GraphIds) THEN acc
    ELSE forEachDependentEdge({edge \in E : edge[1] = serviceId},
                              [acc EXCEPT !.expanded = Append(@, serviceId)], E)

\* findDownstream(serviceId), on acc = [visited, found]: the two Sets;
\* expanded records each pass beyond the visited test
findDownstream(serviceId, acc, E) ==
    IF serviceId \in acc.visited THEN acc
    ELSE forEachDependentEdge({edge \in E : edge[1] = serviceId},
                              [acc EXCEPT !.visited = @ \cup {serviceId},
                                          !.expanded = Append(@, serviceId)], E)

\* a loop that follows the first dependent edge only
forEachDependentEdge_First(dependentEdges, acc, E) ==
    IF dependentEdges = {} THEN acc
    ELSE LET edge == CHOOSE e \in dependentEdges : TRUE
         IN  findDownstream(edge[2], [acc EXCEPT !.found = @ \cup {edge[2]}], E)

\* dependentEdges.forEach: dependents.add(edge.target); findDownstream(edge.target)
forEachDependentEdge(dependentEdges, acc, E) ==
    IF dependentEdges = {} THEN acc
    ELSE LET edge == CHOOSE e \in dependentEdges : TRUE
             dependentId == edge[2]
             added == [acc EXCEPT !.found = @ \cup {dependentId}]
         IN  forEachDependentEdge(dependentEdges \ {edge},
                                  findDownstream(dependentId, added, E), E)

\* a query that first drops the edges with an end that is no node
get_downstream_dependents_ValidEdges(target_service_id, N, E) ==
    LET valid == {e \in E : e[1] \in N /\ e[2] \in N}
        dependents == findDownstream(target_service_id, NewTraversal, valid).found
    IN  {id \in N : id \in dependents}

\* nodes.filter(node => dependents.has(node.id)), as the set of the ids returned
get_downstream_dependents(target_service_id, N, E) ==
    LET dependents == findDownstream(target_service_id, NewTraversal, E).found
    IN  {id \in N : id \in dependents}

RECURSIVE findUpstream(_, _, _)
RECURSIVE forEachDependencyEdge(_, _, _)

\* a traversal that walks the edges in the downstream direction
findUpstream_Down(serviceId, acc, E) == findDownstream(serviceId, acc, E)

\* findUpstream(serviceId), on acc = [visited, found]: the two Sets;
\* expanded records each pass beyond the visited test
findUpstream(serviceId, acc, E) ==
    IF serviceId \in acc.visited THEN acc
    ELSE forEachDependencyEdge({edge \in E : edge[2] = serviceId},
                               [acc EXCEPT !.visited = @ \cup {serviceId},
                                           !.expanded = Append(@, serviceId)], E)

\* dependencyEdges.forEach: dependencies.add(edge.source); findUpstream(edge.source)
forEachDependencyEdge(dependencyEdges, acc, E) ==
    IF dependencyEdges = {} THEN acc
    ELSE LET edge == CHOOSE e \in dependencyEdges : TRUE
             dependencyId == edge[1]
             added == [acc EXCEPT !.found = @ \cup {dependencyId}]
         IN  forEachDependencyEdge(dependencyEdges \ {edge},
                                   findUpstream(dependencyId, added, E), E)

\* nodes.filter(node => dependencies.has(node.id)), as the set of the ids returned
get_upstream_dependencies(target_service_id, N, E) ==
    LET dependencies == findUpstream(target_service_id, NewTraversal, E).found
    IN  {id \in N : id \in dependencies}

\* get_downstream_dependents(x, nodes, edges) is called
QueryDownstream(x) ==
    /\ queryResult' = [fn |-> "downstream", target |-> x, roots |-> {},
                       result |-> get_downstream_dependents(x, nodes, edges),
                       expanded |-> findDownstream(x, NewTraversal, edges).expanded]
    /\ UNCHANGED <<coordinatorVars, client, nodes, edges, adminVars>>

\* get_upstream_dependencies(x, nodes, edges) is called
QueryUpstream(x) ==
    /\ queryResult' = [fn |-> "upstream", target |-> x, roots |-> {},
                       result |-> get_upstream_dependencies(x, nodes, edges),
                       expanded |-> findUpstream(x, NewTraversal, edges).expanded]
    /\ UNCHANGED <<coordinatorVars, client, nodes, edges, adminVars>>

RECURSIVE Closure(_, _)
\* the ids that S reaches along source-to-target edges of E, S included
Closure(S, E) ==
    LET next == S \cup {e[2] : e \in {f \in E : f[1] \in S}}
    IN  IF next = S THEN S ELSE Closure(next, E)

\* the ids at the end of a directed path of one or more edges of E from x
Reachable(x, E) == Closure({e[2] : e \in {f \in E : f[1] = x}}, E)

\* the edges array with source and target of every edge exchanged
Reversed(E) == {<<e[2], e[1]>> : e \in E}

RECURSIVE forEachOutageService(_, _, _, _)

\* a loop that adds the dependents of each service in outage, not the service
forEachOutageService_DependentsOnly(outageService, affected, N, E) ==
    affected \cup UNION {get_downstream_dependents(id, N, E) : id \in outageService}

\* outageService.forEach: outageAffectedIds.add(outageServiceId), then
\* every dependent of it is added
forEachOutageService(outageService, affected, N, E) ==
    IF outageService = {} THEN affected
    ELSE LET outageServiceId == CHOOSE id \in outageService : TRUE
             dependents == get_downstream_dependents(outageServiceId, N, E)
         IN  forEachOutageService(outageService \ {outageServiceId},
                                  affected \cup {outageServiceId} \cup dependents,
                                  N, E)

\* the Set outageAffectedIds of getElementLayout after the loop
outageAffectedIds(N, E, outageService) == forEachOutageService(outageService, {}, N, E)

\* getElementLayout(nodes, edges, outageService, ...) is called
Layout(outageService) ==
    /\ queryResult' = [fn |-> "layout", target |-> "-", roots |-> outageService,
                       result |-> outageAffectedIds(nodes, edges, outageService),
                       expanded |-> <<>>]
    /\ UNCHANGED <<coordinatorVars, client, nodes, edges, adminVars>>

\* any nodes array and any edges array over the ids, cycles, self-loops and
\* edges with an end that is no node included
InitGraph ==
    /\ cfg = DefaultOptions
    /\ Constructed
    /\ statusUpdateCallbacks = {}
    /\ errorCallbacks = {}
    /\ client = NoClient
    /\ nodes \in SUBSET GraphIds
    /\ edges \in SUBSET (GraphIds \X GraphIds)
    /\ queryResult = NoQuery
    /\ NoAdminPage

NextGraph ==
    \/ \E x \in GraphIds : QueryDownstream(x)
    \/ \E x \in GraphIds : QueryUpstream(x)
    \/ \E outageService \in SUBSET GraphIds : Layout(outageService)

SpecGraph == InitGraph /\ [][NextGraph]_vars

(***************************************************************************)
(* The detailed view: the layout of the selected service, its dependencies *)
(* and its dependents, with the outage list of the App                     *)
(***************************************************************************)
\* DetailedFlowView, highlight effect: the selected node, its dependents and
\* its dependencies on the full arrays
highlightedIds(selectedNode, N, E) ==
    {selectedNode} \cup get_downstream_dependents(selectedNode, N, E)
                  \cup get_upstream_dependencies(selectedNode, N, E)

\* layout effect: serviceNodes.filter(n => relatedNodeIds.has(n.service_id))
relatedNodes(selectedNode, N, E) ==
    LET relatedNodeIds == highlightedIds(selectedNode, N, E)
    IN  {n \in N : n \in relatedNodeIds}

\* layout effect: serviceRelations.filter(e => both ends are related)
relatedEdges(selectedNode, N, E) ==
    LET relatedNodeIds == highlightedIds(selectedNode, N, E)
    IN  {e \in E : e[1] \in relatedNodeIds /\ e[2] \in relatedNodeIds}

\* the nodes getElementLayout gives the class outage-node or
\* outage-dependent-node: isInOutage || isOutageDependent
outageMarked(N, E, outageService) == {n \in N : n \in outageAffectedIds(N, E, outageService)}

\* the detailed view renders a selected node of the graph:
\* getElementLayout(relatedNodes, relatedEdges, outageService, ...)
DetailedLayout(selectedNode, outageService) ==
    /\ selectedNode \in nodes
    /\ queryResult' = [fn |-> "detailed", target |-> selectedNode, roots |-> outageService,
                       result |-> outageMarked(relatedNodes(selectedNode, nodes, edges),
                                               relatedEdges(selectedNode, nodes, edges),
                                               outageService),
                       expanded |-> <<>>]
    /\ UNCHANGED <<coordinatorVars, client, nodes, edges, adminVars>>

\* every service is a node; any relations among the services
InitDetail ==
    /\ cfg = DefaultOptions
    /\ Constructed
    /\ statusUpdateCallbacks = {}
    /\ errorCallbacks = {}
    /\ client = NoClient
    /\ nodes = GraphIds
    /\ edges \in SUBSET (GraphIds \X GraphIds)
    /\ queryResult = NoQuery
    /\ NoAdminPage

NextDetail ==
    \E selectedNode \in GraphIds, outageService \in SUBSET GraphIds :
        DetailedLayout(selectedNode, outageService)

SpecDetail == InitDetail /\ [][NextDetail]_vars

(***************************************************************************)
(* The service list: the per-type status tally of ServiceList and the      *)
(* tally a group row computes itself when the list gave it none            *)
(***************************************************************************)
\* the rows of the list, in the order of the services array
ListedServices == <<"a", "b", "c">>
ListedIds == {ListedServices[k] : k \in DOMAIN ListedServices}

\* service_type of a row: a type name, or null
NullType == "null"
ServiceTypes == {"api", NullType}

\* last_status_code values of a status record: the six known codes and one
\* that is none of them
ListedCodes == {0, 1, 2, 3, 4, 5, 7}

\* the buckets of a StatusSummaryCounts
Buckets == {"ok", "degraded", "failed", "starting", "stopped", "unknown", "others"}

\* { ok: 0, ..., unknown: 0, others: 0, total: 0 }
ZeroCounts == [b \in Buckets \cup {"total"} |-> 0]

\* defaultSummaryCounts(total)
defaultSummaryCounts(total) ==
    [ZeroCounts EXCEPT !["unknown"] = total, !["total"] = total]

\* the case of switch (statusCode) that a service falls into, statusCode
\* being statusMap[service_id]?.last_status_code ?? null
SwitchCase(sm, id) ==
    IF id \notin DOMAIN sm THEN "unknown"
    ELSE CASE sm[id] = 0 -> "ok"
           [] sm[id] = 1 -> "degraded"
           [] sm[id] = 2 -> "failed"
           [] sm[id] = 3 -> "starting"
           [] sm[id] = 4 -> "stopped"
           [] sm[id] = 5 -> "unknown"
           [] OTHER -> "others"

\* the key of summary a row is counted under: service_type ?? 'Unknown'
TypeKey(type) == IF type = NullType THEN "Unknown" ELSE type

RECURSIVE forEachService(_, _, _, _)
\* services.forEach of statusSummaryByType: the type's counts are created on
\* first use, total and the bucket of the switch are incremented
forEachService(rest, services, sm, summary) ==
    IF rest = <<>> THEN summary
    ELSE LET id == Head(rest)
             type == TypeKey(services[id])
             created == IF type \in DOMAIN summary THEN summary
                        ELSE summary @@ (type :> ZeroCounts)
             counted == [created[type] EXCEPT !["total"] = @ + 1]
             counts == [counted EXCEPT ![SwitchCase(sm, id)] = @ + 1]
         IN  forEachService(Tail(rest), services, sm,
                            [created EXCEPT ![type] = counts])

\* statusSummaryByType
statusSummaryByType(services, sm) == forEachService(ListedServices, services, sm, <<>>)

\* a tally step that counts the bucket and leaves unknown as it was
countChild_KeepsUnknown(counts, case) ==
    IF case = "unknown" THEN counts ELSE [counts EXCEPT ![case] = @ + 1]

\* one child of fallbackCounts: codes 5 and null change nothing, every other
\* case increments its bucket and takes one from unknown, not below zero
countChild(counts, case) ==
    IF case = "unknown" THEN counts
    ELSE [counts EXCEPT ![case] = @ + 1,
                        !["unknown"] = IF @ - 1 > 0 THEN @ - 1 ELSE 0]

RECURSIVE forEachChild(_, _, _)
\* node.allLeafChildren.forEach of fallbackCounts
forEachChild(children, sm, counts) ==
    IF children = {} THEN counts
    ELSE LET child == CHOOSE id \in children : TRUE
         IN  forEachChild(children \ {child}, sm,
                          countChild(counts, SwitchCase(sm, child)))

\* fallbackCounts() of the group row whose leaf children are the given rows
fallbackCounts(children, sm) ==
    forEachChild(children, sm, defaultSummaryCounts(Cardinality(children)))

\* the rows grouped under a service_type
GroupMembers(services, type) == {id \in ListedIds : services[id] = type}

\* the list computes statusSummaryByType from its services and status map
SummarizeByType ==
    /\ serviceList.shown = "none"
    /\ serviceList' =
          [serviceList EXCEPT
              !.shown = "summary",
              !.counts = statusSummaryByType(serviceList.services, serviceList.statusMap)]
    /\ UNCHANGED <<coordinatorVars, client, graphVars, dependencyDialog, relationsApi,
                   outageView, appStream>>

\* the group row of a type renders without a summary and counts its children
RenderGroupFallback(type) ==
    /\ serviceList.shown = "none"
    /\ serviceList' =
          [serviceList EXCEPT
              !.shown = type,
              !.counts = fallbackCounts(GroupMembers(serviceList.services, type),
                                        serviceList.statusMap)]
    /\ UNCHANGED <<coordinatorVars, client, graphVars, dependencyDialog, relationsApi,
                   outageView, appStream>>

\* any typing of the rows and any status assignment, rows without a record
\* included
InitList ==
    /\ cfg = DefaultOptions
    /\ Constructed
    /\ statusUpdateCallbacks = {}
    /\ errorCallbacks = {}
    /\ client = NoClient
    /\ nodes = {}
    /\ edges = {}
    /\ queryResult = NoQuery
    /\ dependencyDialog = ClosedDialog
    /\ relationsApi = NoRelationsApi
    /\ outageView = NoOutageView
    /\ appStream = NoAppStream
    /\ \E services \in [ListedIds -> ServiceTypes], known \in SUBSET ListedIds :
          \E sm \in [known -> ListedCodes] :
              serviceList = [services |-> services, statusMap |-> sm,
                             shown |-> "none", counts |-> <<>>]

NextList ==
    \/ SummarizeByType
    \/ \E type \in ServiceTypes : RenderGroupFallback(type)

SpecList == InitList /\ [][NextList]_vars

(***************************************************************************)
(* The add-dependency dialog of the admin page: the candidates it offers,  *)
(* the POST that creates the relation and the relation appended to the     *)
(* cached flow chart when the POST is answered                             *)
(***************************************************************************)
\* no id along the edges leads back to itself
Acyclic(E) == \A x \in GraphIds : x \notin Reachable(x, E)

\* candidates that exclude the selected service only
availableUpstreamServices_ExcludesSelfOnly(selectedNode, N, E) ==
    IF selectedNode = "" THEN {} ELSE N \ {selectedNode}

\* availableUpstreamServices: the nodes that are neither the selected one nor
\* one of its downstream dependents, as the set of their ids
availableUpstreamServices(selectedNode, N, E) ==
    IF selectedNode = "" THEN {}
    ELSE LET downstreamDependents == get_downstream_dependents(selectedNode, N, E)
             excludeIds == {selectedNode} \cup downstreamDependents
         IN  {service \in N : service \notin excludeIds}

\* handleSelectService / a node is clicked; the open dialog covers the page
SelectService(service) ==
    /\ ~dependencyDialog.isDependencyDialogOpen
    /\ service \in nodes
    /\ dependencyDialog' = [dependencyDialog EXCEPT !.selectedNode = service]
    /\ UNCHANGED <<coordinatorVars, client, graphVars, serviceList, relationsApi,
                   outageView, appStream>>

\* the "Add Dependency" button of the selected service's panel
OpenDependencyDialog ==
    /\ ~dependencyDialog.isDependencyDialogOpen
    /\ dependencyDialog.selectedNode # ""
    /\ dependencyDialog' = [dependencyDialog EXCEPT !.isDependencyDialogOpen = TRUE]
    /\ UNCHANGED <<coordinatorVars, client, graphVars, serviceList, relationsApi,
                   outageView, appStream>>

\* an option of the select is chosen: the options are the candidates
ChooseDependency(service) ==
    /\ dependencyDialog.isDependencyDialogOpen
    /\ service \in availableUpstreamServices(dependencyDialog.selectedNode, nodes, edges)
    /\ dependencyDialog' = [dependencyDialog EXCEPT !.newDependencyServiceId = service]
    /\ UNCHANGED <<coordinatorVars, client, graphVars, serviceList, relationsApi,
                   outageView, appStream>>

\* resetDependencyDialog: Cancel and the close button, enabled at all times
ResetDependencyDialog ==
    /\ dependencyDialog.isDependencyDialogOpen
    /\ dependencyDialog' =
          [dependencyDialog EXCEPT !.isDependencyDialogOpen = FALSE,
                                   !.newDependencyServiceId = "",
                                   !.isDependencySubmitting = FALSE]
    /\ UNCHANGED <<coordinatorVars, client, graphVars, serviceList, relationsApi,
                   outageView, appStream>>

\* POST /api/admin/relations as the backend handles it: the relation is
\* created unless it would close a circular dependency, and any request may
\* be refused
CreateRelation(api, source, target, refused) ==
    LET created == ~refused /\ Acyclic(api.relations \cup {<<source, target>>})
    IN  [relations |-> IF created THEN api.relations \cup {<<source, target>>}
                       ELSE api.relations,
         posts |-> api.posts \cup {[source |-> source, target |-> target,
                                     created |-> created]}]

\* handleSubmitDependency up to the await of the POST
SubmitDependency(refused) ==
    /\ dependencyDialog.isDependencyDialogOpen
    /\ ~dependencyDialog.isDependencySubmitting
    /\ dependencyDialog.newDependencyServiceId # ""
    /\ dependencyDialog.selectedNode # ""
    /\ Cardinality(relationsApi.posts) < MaxInflight
    /\ dependencyDialog' = [dependencyDialog EXCEPT !.isDependencySubmitting = TRUE]
    /\ relationsApi' = CreateRelation(relationsApi,
                                      dependencyDialog.newDependencyServiceId,
                                      dependencyDialog.selectedNode, refused)
    /\ UNCHANGED <<coordinatorVars, client, graphVars, serviceList, outageView, appStream>>

\* appendRelationToFlowChartCache
appendRelationToFlowChartCache(serviceRelations, relation) ==
    serviceRelations \cup {<<relation.source, relation.target>>}

\* handleSubmitDependency after the POST was answered with the relation
PostResolves(post) ==
    /\ post \in relationsApi.posts
    /\ post.created
    /\ edges' = appendRelationToFlowChartCache(edges, post)
    /\ dependencyDialog' = [dependencyDialog EXCEPT !.newDependencyServiceId = "",
                                                    !.isDependencySubmitting = FALSE,
                                                    !.lastAdded = <<post.source, post.target>>]
    /\ relationsApi' = [relationsApi EXCEPT !.posts = @ \ {post}]
    /\ UNCHANGED <<coordinatorVars, client, nodes, queryResult, serviceList,
                   outageView, appStream>>

\* handleSubmitDependency after the POST failed: the error is shown
PostRejects(post) ==
    /\ post \in relationsApi.posts
    /\ ~post.created
    /\ dependencyDialog' = [dependencyDialog EXCEPT !.isDependencySubmitting = FALSE]
    /\ relationsApi' = [relationsApi EXCEPT !.posts = @ \ {post}]
    /\ UNCHANGED <<coordinatorVars, client, graphVars, serviceList, outageView, appStream>>

\* the flow chart was loaded: nodes and an acyclic set of relations, which
\* the backend stores
InitDialog ==
    /\ cfg = DefaultOptions
    /\ Constructed
    /\ statusUpdateCallbacks = {}
    /\ errorCallbacks = {}
    /\ client = NoClient
    /\ queryResult = NoQuery
    /\ serviceList = NoServiceList
    /\ nodes \in SUBSET GraphIds
    /\ edges \in {E \in SUBSET (GraphIds \X GraphIds) : Acyclic(E)}
    /\ dependencyDialog = ClosedDialog
    /\ relationsApi = [relations |-> edges, posts |-> {}]
    /\ outageView = NoOutageView
    /\ appStream = NoAppStream

NextDialog ==
    \/ \E service \in GraphIds : SelectService(service)
    \/ OpenDependencyDialog
    \/ \E service \in GraphIds : ChooseDependency(service)
    \/ ResetDependencyDialog
    \/ \E refused \in BOOLEAN : SubmitDependency(refused)
    \/ \E post \in relationsApi.posts : PostResolves(post)
    \/ \E post \in relationsApi.posts : PostRejects(post)

SpecDialog == InitDialog /\ [][NextDialog]_vars

(***************************************************************************)
(* The outage list of the App and the service cards of the detailed view:  *)
(* each card's effect reads the status data and the list the card was      *)
(* rendered with, and updates the list through setOutageService            *)
(***************************************************************************)
\* longest outage list explored
MaxOutageLen == 3

\* the services a card can be shown for
CardIds == {"A", "B"}

\* last_status_code values a status query delivers
CardCodes == {0, 1, 2, 3}

\* array.includes(x)
Includes(list, x) == \E k \in DOMAIN list : list[k] = x

\* prev.filter(i => i !== serviceId)
FilterOut(prev, serviceId) == SelectSeq(prev, LAMBDA i : i # serviceId)

\* the outage effect of ServiceCard: the list after the updater it queues, if
\* any, has run on the latest list prev; the tests read the list and the
\* status the card was rendered with
outageEffect(prev, rendered, serviceId, code) ==
    IF code = 0
    THEN IF Includes(rendered, serviceId) THEN FilterOut(prev, serviceId) ELSE prev
    ELSE IF code \in {1, 2, 4} /\ ~Includes(rendered, serviceId)
    THEN Append(prev, serviceId)
    ELSE prev

\* a card mounts with the list of the layout that created it; under
\* StrictMode its effects run, are cleaned up and run again
MountCard(id) ==
    /\ id \notin DOMAIN outageView.cards
    /\ outageView' =
          [outageView EXCEPT
              !.cards = @ @@ (id :> [rendered |-> outageView.outageService, runs |-> 2])]
    /\ UNCHANGED <<coordinatorVars, client, graphVars, serviceList, dependencyDialog,
                   relationsApi, appStream>>

\* the card leaves the view; its query data stays in the cache
UnmountCard(id) ==
    /\ id \in DOMAIN outageView.cards
    /\ outageView.cards[id].runs = 0
    /\ outageView' =
          [outageView EXCEPT
              !.cards = [c \in DOMAIN outageView.cards \ {id} |-> outageView.cards[c]]]
    /\ UNCHANGED <<coordinatorVars, client, graphVars, serviceList, dependencyDialog,
                   relationsApi, appStream>>

\* the status query of a mounted card delivers data with another code: the
\* card renders again, with the node data it has, and its effect runs
ObserveStatus(id, code) ==
    /\ id \in DOMAIN outageView.cards
    /\ outageView.cards[id].runs = 0
    /\ id \in DOMAIN outageView.statusData => outageView.statusData[id] # code
    /\ outageView' =
          [outageView EXCEPT
              !.statusData = (id :> code) @@ @,
              !.cards[id].runs = 1]
    /\ UNCHANGED <<coordinatorVars, client, graphVars, serviceList, dependencyDialog,
                   relationsApi, appStream>>

\* the layout effect of DetailedFlowView runs for a changed list and hands
\* the latest list to every card, whose effect then runs again
DeliverList ==
    /\ \A id \in DOMAIN outageView.cards : outageView.cards[id].runs = 0
    /\ \E id \in DOMAIN outageView.cards :
          outageView.cards[id].rendered # outageView.outageService
    /\ outageView' =
          [outageView EXCEPT
              !.cards = [id \in DOMAIN outageView.cards |->
                            IF outageView.cards[id].rendered = outageView.outageService
                            THEN outageView.cards[id]
                            ELSE [rendered |-> outageView.outageService, runs |-> 1]]]
    /\ UNCHANGED <<coordinatorVars, client, graphVars, serviceList, dependencyDialog,
                   relationsApi, appStream>>

\* one run of the card's outage effect; without status data it returns early
RunOutageEffect(id) ==
    /\ id \in DOMAIN outageView.cards
    /\ outageView.cards[id].runs > 0
    /\ LET next == IF id \in DOMAIN outageView.statusData
                   THEN outageEffect(outageView.outageService,
                                     outageView.cards[id].rendered, id,
                                     outageView.statusData[id])
                   ELSE outageView.outageService
       IN  /\ Len(next) <= MaxOutageLen
           /\ outageView' = [outageView EXCEPT !.outageService = next,
                                               !.cards[id].runs = @ - 1]
    /\ UNCHANGED <<coordinatorVars, client, graphVars, serviceList, dependencyDialog,
                   relationsApi, appStream>>

\* the App has rendered: no service in outage, no card, no status data
InitOutage ==
    /\ cfg = DefaultOptions
    /\ Constructed
    /\ statusUpdateCallbacks = {}
    /\ errorCallbacks = {}
    /\ client = NoClient
    /\ nodes = {}
    /\ edges = {}
    /\ queryResult = NoQuery
    /\ serviceList = NoServiceList
    /\ dependencyDialog = ClosedDialog
    /\ relationsApi = NoRelationsApi
    /\ outageView = NoOutageView
    /\ appStream = NoAppStream

NextOutage ==
    \/ \E id \in CardIds : MountCard(id)
    \/ \E id \in CardIds : UnmountCard(id)
    \/ \E id \in CardIds, code \in CardCodes : ObserveStatus(id, code)
    \/ DeliverList
    \/ \E id \in CardIds : RunOutageEffect(id)

SpecOutage == InitOutage /\ [][NextOutage]_vars

(***************************************************************************)
(* The App's status stream: setEventStream(enable), called by the effect   *)
(* (true) and by its cleanup (false), and the handlers of each             *)
(* EventSourcePolyfill it creates.  appStream.sources holds the readyState *)
(* of every source created, sseRef the index of the one sseRef.current     *)
(* refers to, invalidated the services whose status queries were           *)
(* invalidated.                                                            *)
(***************************************************************************)
MaxSources == 3         \* EventSourcePolyfill objects created during one run

\* noti.service_id of a notification: a service id, or none
NotifiedIds == CardIds \cup {""}

StreamFrame ==
    UNCHANGED <<coordinatorVars, client, graphVars, serviceList, dependencyDialog,
                relationsApi, outageView>>

\* sseRef.current?.close()
closeRef(sources, ref) ==
    IF ref # NoConnection THEN [sources EXCEPT ![ref] = CLOSED] ELSE sources

\* the effect runs: setEventStream(true) creates a source and assigns its
\* handlers; sseRef.current is not assigned here
EnableEventStream ==
    /\ ~appStream.enabled
    /\ Len(appStream.sources) < MaxSources
    /\ appStream' = [appStream EXCEPT !.sources = Append(@, CONNECTING), !.enabled = TRUE]
    /\ StreamFrame

\* the cleanup of the effect runs: setEventStream(false)
DisableEventStream ==
    /\ appStream.enabled
    /\ appStream' = [appStream EXCEPT !.sources = closeRef(@, appStream.sseRef),
                                      !.sseRef = NoConnection,
                                      !.enabled = FALSE]
    /\ StreamFrame

\* sse.onopen: sseRef.current = sse
StreamOpen(i) ==
    /\ appStream.sources[i] = CONNECTING
    /\ appStream' = [appStream EXCEPT !.sources[i] = OPEN, !.sseRef = i]
    /\ StreamFrame

\* sse.onmessage: invalidateQueries for noti.service_id, if there is one
StreamMessage(i, service_id) ==
    /\ appStream.sources[i] = OPEN
    /\ appStream' = [appStream EXCEPT !.invalidated =
                         IF service_id # "" THEN @ \cup {service_id} ELSE @]
    /\ StreamFrame

\* sse.onerror: sse.close(); sseRef.current = undefined
StreamError(i) ==
    /\ appStream.sources[i] \in {CONNECTING, OPEN}
    /\ appStream' = [appStream EXCEPT !.sources[i] = CLOSED, !.sseRef = NoConnection]
    /\ StreamFrame

\* the App has rendered and no effect has run yet
InitStream ==
    /\ cfg = DefaultOptions
    /\ Constructed
    /\ statusUpdateCallbacks = {}
    /\ errorCallbacks = {}
    /\ client = NoClient
    /\ nodes = {}
    /\ edges = {}
    /\ queryResult = NoQuery
    /\ NoAdminPage

NextStream ==
    \/ EnableEventStream
    \/ DisableEventStream
    \/ \E i \in DOMAIN appStream.sources : StreamOpen(i)
    \/ \E i \in DOMAIN appStream.sources, service_id \in NotifiedIds :
          StreamMessage(i, service_id)
    \/ \E i \in DOMAIN appStream.sources : StreamError(i)

SpecStream == InitStream /\ [][NextStream]_vars

(***************************************************************************)
(* Properties                                                              *)
(***************************************************************************)
NonClosedSockets == {i \in DOMAIN sockets : sockets[i] # CLOSED}

\* a step in which a request that was in flight at cleanup() settles
StaleSettles ==
    \E e \in BagToSet(inflight) : e.stale /\ inflight' = BagRemove(inflight, e)

\* a step in which the close event of a socket is handled
CloseEvent == \E i \in DOMAIN sockets : sockets[i] # CLOSED /\ sockets'[i] = CLOSED

\* a step in which a live message for a tracked service is applied
LiveUpdate ==
    \/ \E i \in DOMAIN streams, m \in SseMessages :
          m.type = "status" /\ m.service_id \in serviceIds /\ SseMessage(i, m)
    \/ \E i \in DOMAIN sockets, m \in WsMessages :
          m.type = "status_update" /\ m.service_id \in serviceIds /\ WsMessage(i, m)

\* C1: when a fetch that was in flight at cleanup() settles, the status map
\* does not change
C1_StaleFetchKeepsMap == [][StaleSettles => statusMap' = statusMap]_vars

\* C2: after cleanup() no poll timer is running and no poll is ever issued
C2_NoPollerAfterCleanup ==
    /\ [](disposed => RunningPollTimers = {})
    /\ [][disposed => ~(\E t \in RunningPollTimers : PollFire(t))]_vars

\* C3: after cleanup() on a socket-variant coordinator a reconnect attempt
\* that fires never opens a socket
C3_NoReconnectAfterCleanup ==
    [][disposed /\ WS_ENABLED /\ ReconnectFire => sockets' = sockets]_vars

\* C4: every close event schedules exactly one reconnect attempt, due after
\* the fixed delay; an attempt that fires while a socket that is not closed
\* exists creates nothing; at most one socket is not closed
C4_SingleSocket ==
    /\ [](Cardinality(NonClosedSockets) <= 1)
    /\ [][CloseEvent =>
            reconnectTimers' = Append(reconnectTimers, RECONNECT_DELAY)]_vars
    /\ [][ReconnectFire /\ NonClosedSockets # {} => sockets' = sockets]_vars

\* C4 witness: the first socket has closed and the reconnect attempt has
\* opened the second one
C4_Witness ==
    /\ Len(sockets) = 2
    /\ sockets[1] = CLOSED
    /\ sockets[2] = OPEN
    /\ reconnectTimers = <<>>

\* C5: a coordinator never has a stream and a socket; sockets exist only with
\* enableWebSocket, streams only with enableSSE and without enableWebSocket
C5_OneVariant ==
    /\ ~(sseConnection # NoConnection /\ wsConnection # NoConnection)
    /\ streams = <<>> \/ sockets = <<>>
    /\ sockets # <<>> => WS_ENABLED
    /\ streams # <<>> => SSE_ENABLED /\ ~WS_ENABLED

\* C5 witness: both variants are enabled, initialize() has finished, the
\* socket was reopened by a reconnect
C5_Witness ==
    /\ WS_ENABLED /\ SSE_ENABLED
    /\ initPc = "done"
    /\ Len(sockets) = 2
    /\ wsConnection = 2

\* C6: before the initial batch fetch has settled there is no channel, no
\* poll timer and no live update; when it settles, with records or with a
\* failure, the configured channel is opened and the poller is started
C6_InitialFetchFirst ==
    /\ [](initPc # "done" =>
            streams = <<>> /\ sockets = <<>> /\ RunningPollTimers = {})
    /\ [][LiveUpdate => initPc = "done"]_vars
    /\ [][initPc = "awaiting" /\ initPc' = "done" =>
            /\ pollInterval' = Timer(FALLBACK_POLL_INTERVAL)
            /\ WS_ENABLED => Len(sockets') = Len(sockets) + 1
            /\ ~WS_ENABLED /\ SSE_ENABLED => Len(streams') = Len(streams) + 1]_vars

\* C6 witness: the initial fetch has just failed, and the stream is opening
\* and the poller is running all the same
C6_Witness ==
    /\ initPc = "done"
    /\ lastNotify.error = 1
    /\ \A id \in Ids : statusMap[id] = Absent
    /\ streams = <<CONNECTING>>
    /\ pollInterval = Timer(FALLBACK_POLL_INTERVAL)

\* C7: after an error event of the live channel while the poller runs, a
\* poll fires before more than the accelerated interval has passed
C7_PollSoonAfterError == errOwed = NotOwed \/ errOwed[1] >= 0

\* C8: a live update applied while the poller runs leaves exactly one poll
\* timer running, due one base interval later
C8_LiveUpdateResetsPoll ==
    [][LiveUpdate /\ IsTimer(pollInterval) =>
         /\ pollInterval' = Timer(FALLBACK_POLL_INTERVAL)
         /\ RunningPollTimers' = {pollInterval'}]_vars

\* C8 witness: the poller had been accelerated by an error and a live update
\* has put it back to the base interval, which is not the accelerated one
C8_Witness ==
    /\ lastChanEvent = "open"
    /\ errOwed # NotOwed
    /\ lastNotify.status = 1
    /\ FALLBACK_POLL_INTERVAL # ACCELERATED_POLL_INTERVAL
    /\ pollInterval = Timer(FALLBACK_POLL_INTERVAL)

\* C9: while the coordinator runs, the poller runs too, at the base interval
\* when the channel's last event was an open, at the accelerated interval
\* when it was an error or a close
C9_PeriodFollowsChannel ==
    initPc = "done" /\ ~disposed =>
        /\ IsTimer(pollInterval)
        /\ lastChanEvent = "open" => pollInterval.period = FALLBACK_POLL_INTERVAL
        /\ lastChanEvent \in {"error", "close"} =>
              pollInterval.period = ACCELERATED_POLL_INTERVAL

\* C10: from every state of a running coordinator a poll fires at most one
\* poll period of that state later, as long as no live update arrives
C10_QuietChannelStillPolls == pollOwed = NotOwed \/ pollOwed[1] >= 0

\* a step in which a live message that does not parse is handled
MalformedMessage ==
    \/ \E i \in DOMAIN streams : SseMessage(i, Malformed)
    \/ \E i \in DOMAIN sockets : WsMessage(i, Malformed)

\* C11: a live message that cannot be parsed is reported to every error
\* subscriber in exactly one round, and neither closes the channel nor changes
\* the status map nor reschedules the poll timer
C11_MalformedIsReported ==
    [][MalformedMessage =>
          /\ lastNotify'.error = (IF errorCallbacks = {} THEN 0 ELSE 1)
          /\ lastNotify'.status = 0
          /\ errorCallbacks' = errorCallbacks
          /\ streams' = streams /\ sseConnection' = sseConnection
          /\ sockets' = sockets /\ wsConnection' = wsConnection
          /\ reconnectTimers' = reconnectTimers
          /\ statusMap' = statusMap
          /\ pollInterval' = pollInterval /\ orphanTimers' = orphanTimers]_vars

\* an unparseable message was just reported while the channel is open, records
\* are stored and the poll timer is part-way through its period
C11_Witness ==
    /\ lastNotify.error = 1
    /\ lastNotify.status = 0
    /\ errorCallbacks # {}
    /\ \/ sseConnection # NoConnection /\ streams[sseConnection] = OPEN
       \/ wsConnection # NoConnection /\ sockets[wsConnection] = OPEN
    /\ statusMap["s1"] # Absent
    /\ IsTimer(pollInterval) /\ pollInterval.due < pollInterval.period
    /\ lastChanEvent = "open"
    /\ inflight = EmptyBag

\* a step in which a batch or single fetch issued after initialize() fails
FetchFails ==
    \E e \in BagToSet(inflight) : BatchFails(e) \/ SingleFails(e)

\* C12: when a batch or single fetch fails, every error subscriber is notified
\* in one round, no status round runs, no record changes and the poll timer is
\* left as it is; when the fetch of initialize() fails the poller is started
C12_FetchFailureIsReported ==
    [][/\ FetchFails \/ (\E e \in BagToSet(inflight) : InitFetchFails(e)) =>
             /\ lastNotify'.error = (IF errorCallbacks = {} THEN 0 ELSE 1)
             /\ lastNotify'.status = 0
             /\ errorCallbacks' = errorCallbacks
             /\ statusMap' = statusMap
       /\ FetchFails =>
             pollInterval' = pollInterval /\ orphanTimers' = orphanTimers
       /\ (\E e \in BagToSet(inflight) : InitFetchFails(e)) /\ ~disposed =>
             IsTimer(pollInterval')]_vars

\* a fetch has just failed before the stream delivered anything: the failure
\* was reported, the stored record is kept, the poller is scheduled and
\* another fetch is still in flight
C12_Witness ==
    /\ initPc = "done"
    /\ lastNotify.error = 1
    /\ lastNotify.status = 0
    /\ statusMap["s1"] # Absent
    /\ IsTimer(pollInterval)
    /\ streams = <<CONNECTING>>
    /\ \E e \in BagToSet(inflight) : e.kind = "single"

\* C13: applying a batch response that carries a tracked record delivers one
\* notification to the status subscribers, sent after the whole batch is
\* merged, however many tracked records the response carries
C13_OneNotificationPerBatch ==
    [][\A e \in BagToSet(inflight), resp \in ServiceStatusMap :
          /\ BatchResolves(e, resp) \/ InitFetchResolves(e, resp)
          /\ BatchHits(resp) # {}
          /\ statusUpdateCallbacks # {}
          => /\ lastNotify'.status = 1
             /\ lastNotify'.maps[1].entries = statusMap']_vars

\* C14: after a batch response is applied, getServiceStatus returns the
\* record of the response for every tracked id the response carries, the
\* previous value for every tracked id it does not carry, and nothing new for
\* ids that are not tracked
C14_BatchApplied ==
    [][\A e \in BagToSet(inflight) :
          e.kind \in {"batch", "init"} /\ inflight' = BagRemove(inflight, e) =>
              \A resp \in TimedStatusMap :
                  BatchResolves(e, resp) \/ InitFetchResolves(e, resp) =>
                      \A id \in Ids :
                          getServiceStatus(id)' =
                              IF id \in serviceIds /\ resp[id] # Absent
                              THEN resp[id]
                              ELSE getServiceStatus(id)]_vars

\* a batch carrying both tracked records was just applied: both are stored,
\* with different contents, and the untracked id has no entry
C14_Witness ==
    /\ lastNotify.status = 2
    /\ getServiceStatus("s1") \in ServiceStatus
    /\ getServiceStatus("s2") \in ServiceStatus
    /\ getServiceStatus("s1") # getServiceStatus("s2")
    /\ getServiceStatus("u1") = Absent

\* C15: observations are applied in arrival order without looking at their
\* time: whatever record is stored, a live update, a single fetch and a batch
\* response each leave the record they carry in the map, also when its
\* last_check is older than the stored one
C15_LastAppliedWins ==
    [][/\ \A i \in DOMAIN streams, m \in TimedSseMessages :
             m.type = "status" /\ m.service_id \in serviceIds /\ SseMessage(i, m)
             => getServiceStatus(m.service_id)' = m.status
       /\ \A e \in BagToSet(inflight), status \in TimedStatus :
             SingleResolves(e, status) => getServiceStatus(e.id)' = status
       /\ \A e \in BagToSet(inflight) :
             e.kind = "batch" /\ inflight' = BagRemove(inflight, e) =>
                 \A resp \in TimedStatusMap : BatchResolves(e, resp) =>
                     \A id \in BatchHits(resp) : getServiceStatus(id)' = resp[id]
      ]_vars

\* a batch response has just replaced the record of s2, which the first round
\* of the batch still showed with the later time, by a record with the
\* earlier time
C15_Witness ==
    /\ lastNotify.status = 2
    /\ lastNotify.maps[1].entries["s2"].last_check = 2
    /\ getServiceStatus("s2").last_check = 1
    /\ initPc = "done"

\* the maps the client keeps
KeptMaps == {slot \in ClientSlots : client[slot] # <<>>}

\* C16: the maps getStatusMap() returns and the maps handed to subscribers are
\* objects of their own: assigning or deleting an entry in one changes neither
\* the coordinator's map nor a map from another call, and a map the client
\* keeps does not change when the coordinator applies later observations
C16_MapsAreCopies ==
    /\ [][\A slot \in ClientSlots, id \in MutatedIds, v \in ServiceStatus \cup {Absent} :
             Mutate(slot, id, v) =>
                 /\ statusMap' = statusMap
                 /\ \A other \in KeptMaps \ {slot} :
                        Entries(client[other][1])' = Entries(client[other][1])]_vars
    /\ [][client' = client =>
             \A slot \in KeptMaps : Entries(client[slot][1])' = Entries(client[slot][1])]_vars

\* the client keeps a map it asked for and a map it was handed; it has added
\* an entry to the first and deleted one from the second, and the coordinator
\* has stored another record since: all three maps differ
C16_Witness ==
    /\ KeptMaps = ClientSlots
    /\ Entries(client.returned[1])["u1"] # Absent
    /\ Entries(client.handed[1])["s1"] = Absent
    /\ statusMap["s1"] # Absent
    /\ statusMap["u1"] = Absent
    /\ Entries(client.returned[1])["s1"] \notin {Absent, statusMap["s1"]}

\* C17: calling the function onStatusUpdate(cb) returned removes cb and no
\* other subscription, calling it again changes nothing, and every status
\* round invokes all callbacks that are registered
C17_UnsubscribeOnlyThat ==
    /\ [][\A cb \in ClientCallbacks : Unsubscribe(cb) =>
             /\ statusUpdateCallbacks' = statusUpdateCallbacks \ {cb}
             /\ errorCallbacks' = errorCallbacks
             /\ statusMap' = statusMap
             /\ cb \notin statusUpdateCallbacks =>
                    statusUpdateCallbacks' = statusUpdateCallbacks]_vars
    /\ [](lastNotify.status > 0 => lastNotify.to = statusUpdateCallbacks)

\* cb1 was subscribed and has been unsubscribed, cb2 is still registered and
\* was just notified of an update
C17_Witness ==
    /\ client.unsubscribe = ClientCallbacks
    /\ statusUpdateCallbacks = {"cb2"}
    /\ lastNotify.status = 1
    /\ lastNotify.to = {"cb2"}

\* C18: getServiceStatus(id) returns null only as long as no observation for
\* id has been applied: a step that applies a live update for id leaves a
\* record, and once getServiceStatus(id) returns a record (one of status_code
\* 5 included) it never returns null again
C18_NullOnlyBeforeObservation ==
    /\ [][\A id \in serviceIds :
             (\/ \E i \in DOMAIN streams, m \in SseMessages :
                    m.type = "status" /\ m.service_id = id /\ SseMessage(i, m)
              \/ \E i \in DOMAIN sockets, m \in WsMessages :
                    m.type = "status_update" /\ m.service_id = id /\ WsMessage(i, m))
             => getServiceStatus(id)' # Absent]_vars
    /\ [][\A id \in Ids :
             getServiceStatus(id) # Absent => getServiceStatus(id)' # Absent]_vars

\* what cleanup() leaves behind: no channel handle, no poll timer handle, no
\* subscribers
CleanedUp ==
    /\ sseConnection = NoConnection
    /\ wsConnection = NoConnection
    /\ pollInterval = Null
    /\ statusUpdateCallbacks = {}
    /\ errorCallbacks = {}

\* a call of cleanup() that changes a field or an object of the coordinator
CleanupChanges ==
    /\ Cleanup
    /\ <<statusMap, sseConnection, wsConnection, pollInterval, statusUpdateCallbacks,
         errorCallbacks, streams, sockets, orphanTimers, reconnectTimers>>'
       # <<statusMap, sseConnection, wsConnection, pollInterval, statusUpdateCallbacks,
           errorCallbacks, streams, sockets, orphanTimers, reconnectTimers>>

\* C19: cleanup() can be called in every state, also before initialize() and
\* after an earlier cleanup(); it leaves no channel handle, no poll timer and
\* no subscribers, and called in the state an earlier call left it changes
\* nothing
C19_CleanupIdempotent ==
    /\ [](ENABLED Cleanup)
    /\ [][Cleanup => CleanedUp']_vars
    /\ [](disposed /\ CleanedUp => ~ENABLED CleanupChanges)

\* cleanup() has run on an initialized coordinator: the stream it closed is
\* still there, closed, and nothing is held any more
C19_Witness ==
    /\ disposed
    /\ CleanedUp
    /\ initPc = "done"
    /\ \E i \in DOMAIN streams : streams[i] = CLOSED
    /\ RunningPollTimers = {}

\* C20: on every graph, cycles and self-loops included, the result of
\* get_downstream_dependents(x) and of get_upstream_dependencies(x) does not
\* contain x
C20_ExcludesOrigin ==
    queryResult.fn # "none" => queryResult.target \notin queryResult.result

\* C21: a node other than the queried id is returned by
\* get_downstream_dependents exactly when a directed path of one or more
\* edges leads from the queried id to it, and the result is empty for an id
\* that no edge starts from
C21_DownstreamIsReachability ==
    queryResult.fn = "downstream" =>
        /\ \A y \in nodes \ {queryResult.target} :
              y \in queryResult.result <=> y \in Reachable(queryResult.target, edges)
        /\ {e \in edges : e[1] = queryResult.target} = {} => queryResult.result = {}

\* on the chain A -> B -> C the dependents of A are B and, two edges away, C
C21_Witness ==
    /\ nodes = GraphIds
    /\ edges = {<<"A", "B">>, <<"B", "C">>}
    /\ queryResult.fn = "downstream"
    /\ queryResult.target = "A"
    /\ queryResult.result = {"B", "C"}

\* C22: the dependents of a dependent of x are dependents of x, x itself
\* included when a cycle leads back to it
C22_DownstreamTransitive ==
    queryResult.fn = "downstream" =>
        \A y \in queryResult.result :
            get_downstream_dependents(y, nodes, edges) \subseteq queryResult.result

\* on the cycle A -> B -> A the dependents of A are B and A
C22_Witness ==
    /\ nodes = GraphIds
    /\ edges = {<<"A", "B">>, <<"B", "A">>}
    /\ queryResult.fn = "downstream"
    /\ queryResult.target = "A"
    /\ queryResult.result = {"A", "B"}

\* C23: on every graph, cycles and self-loops included, a query returns
\* after at most as many expansions as there are ids, having expanded no
\* service id twice
C23_ExpandsOnce ==
    /\ Len(queryResult.expanded) <= Cardinality(GraphIds)
    /\ \A i, j \in DOMAIN queryResult.expanded :
          queryResult.expanded[i] = queryResult.expanded[j] => i = j

\* a query has returned on a graph with a self-loop and a two-edge cycle,
\* having expanded A and B once each
C23_Witness ==
    /\ {<<"A", "A">>, <<"A", "B">>, <<"B", "A">>} \subseteq edges
    /\ queryResult.fn \in {"downstream", "upstream"}
    /\ queryResult.target = "A"
    /\ Len(queryResult.expanded) = 2

\* C24: for nodes x and y, y is an upstream dependency of x exactly when x is
\* a downstream dependent of y, and the upstream query equals the downstream
\* query on the reversed edges
C24_UpstreamMirrorsDownstream ==
    queryResult.fn = "upstream" =>
        /\ queryResult.result =
              get_downstream_dependents(queryResult.target, nodes, Reversed(edges))
        /\ queryResult.target \in nodes =>
              \A y \in nodes :
                  y \in queryResult.result <=>
                      queryResult.target \in get_downstream_dependents(y, nodes, edges)

\* on the chain A -> B -> C the dependencies of C are B and A
C24_Witness ==
    /\ nodes = GraphIds
    /\ edges = {<<"A", "B">>, <<"B", "C">>}
    /\ queryResult.fn = "upstream"
    /\ queryResult.target = "C"
    /\ queryResult.result = {"A", "B"}

\* C25: a query returns every node that a path through an id outside the
\* node list leads to, whether the queried id itself or an id on the way is
\* the one outside
C25_DanglingEdgesFollowed ==
    \A d \in GraphIds \ nodes, y \in nodes :
        /\ queryResult.fn = "downstream"
              /\ (d = queryResult.target \/ d \in Reachable(queryResult.target, edges))
              /\ y \in Reachable(d, edges)
              => y \in queryResult.result
        /\ queryResult.fn = "upstream"
              /\ (d = queryResult.target
                     \/ d \in Reachable(queryResult.target, Reversed(edges)))
              /\ y \in Reachable(d, Reversed(edges))
              => y \in queryResult.result

\* B is no node, and C, reached from A through B only, is returned
C25_Witness ==
    /\ nodes = {"A", "C"}
    /\ edges = {<<"A", "B">>, <<"B", "C">>}
    /\ queryResult.fn = "downstream"
    /\ queryResult.target = "A"
    /\ queryResult.result = {"C"}

\* C26: the outage-affected set of getElementLayout is the set of the outage
\* roots together with the downstream dependents of every root; it is empty
\* without roots and is the root set when no edge starts from a root
C26_OutageAffected ==
    queryResult.fn = "layout" =>
        /\ queryResult.result =
              queryResult.roots \cup
                  UNION {get_downstream_dependents(r, nodes, edges) : r \in queryResult.roots}
        /\ queryResult.roots = {} => queryResult.result = {}
        /\ (\A e \in edges : e[1] \notin queryResult.roots) =>
              queryResult.result = queryResult.roots

\* two roots on A -> B: the set holds both roots and the dependent of A
C26_Witness ==
    /\ nodes = GraphIds
    /\ edges = {<<"A", "B">>}
    /\ queryResult.fn = "layout"
    /\ queryResult.roots = {"A", "C"}
    /\ queryResult.result = GraphIds

\* the number of rows of a set that fall into a bucket
InBucket(members, b) ==
    Cardinality({id \in members : SwitchCase(serviceList.statusMap, id) = b})

\* counts tallies the given rows: each bucket holds the rows of its codes, so
\* every row is in exactly one, and total is their number
Tallies(counts, members) ==
    /\ \A b \in Buckets : counts[b] = InBucket(members, b)
    /\ counts["total"] = Cardinality(members)
    /\ counts["total"] =
          counts["ok"] + counts["degraded"] + counts["failed"] + counts["starting"]
              + counts["stopped"] + counts["unknown"] + counts["others"]

\* C27: in the per-type tally of the list and in the tally a group row
\* computes itself, every member is counted in the one bucket of its code,
\* and total is the number of members and the sum of the buckets
C27_TallyCountsEachOnce ==
    /\ serviceList.shown = "summary" =>
          /\ DOMAIN serviceList.counts =
                {TypeKey(serviceList.services[id]) : id \in ListedIds}
          /\ \A type \in ServiceTypes :
                GroupMembers(serviceList.services, type) # {} =>
                    Tallies(serviceList.counts[TypeKey(type)],
                            GroupMembers(serviceList.services, type))
    /\ serviceList.shown \in ServiceTypes =>
          Tallies(serviceList.counts,
                  GroupMembers(serviceList.services, serviceList.shown))

\* a group of three rows was tallied by its row: one OK, one with a code
\* that is no known status, one without a record
C27_Witness ==
    /\ serviceList.shown = "api"
    /\ \A id \in ListedIds : serviceList.services[id] = "api"
    /\ DOMAIN serviceList.statusMap = {"a", "b"}
    /\ serviceList.statusMap["a"] = 0
    /\ serviceList.statusMap["b"] = 7
    /\ serviceList.counts["ok"] = 1
    /\ serviceList.counts["others"] = 1
    /\ serviceList.counts["unknown"] = 1
    /\ serviceList.counts["total"] = 3

C29_OnePollTimer ==
    /\ orphanTimers = {}
    /\ Cardinality(RunningPollTimers) <= 1

\* the poller was started at the base interval and an error of the channel
\* has rescheduled it: the accelerated timer is the only one running
C29_Witness ==
    /\ initPc = "done"
    /\ lastChanEvent = "error"
    /\ FALLBACK_POLL_INTERVAL # ACCELERATED_POLL_INTERVAL
    /\ IsTimer(pollInterval)
    /\ pollInterval.period = ACCELERATED_POLL_INTERVAL
    /\ RunningPollTimers = {pollInterval}

\* the map with the record of one service id replaced by the given record
Replaced(map, serviceId, status) ==
    [id \in DOMAIN map |-> IF id = serviceId THEN status ELSE map[id]]

\* C30: a live update and a single fetch response for service id X leave
\* exactly the record they carry under X and every other record as it was;
\* a batch response leaves the record of every id it has no record for as it
\* was
C30_ReplacesOneRecord ==
    [][/\ \A i \in DOMAIN streams, m \in TimedSseMessages :
             m.type = "status" /\ m.service_id \in serviceIds /\ SseMessage(i, m)
             => statusMap' = Replaced(statusMap, m.service_id, m.status)
       /\ \A e \in BagToSet(inflight), status \in TimedStatus :
             SingleResolves(e, status) => statusMap' = Replaced(statusMap, e.id, status)
       /\ \A e \in BagToSet(inflight) :
             e.kind = "batch" /\ inflight' = BagRemove(inflight, e) =>
                 \A resp \in TimedStatusMap : BatchResolves(e, resp) =>
                     \A id \in Ids \ BatchHits(resp) : statusMap'[id] = statusMap[id]
      ]_vars

\* the record of s1 was replaced by one with another code and an earlier
\* time, by an observation of its own, and the record of s2 is still stored
C30_Witness ==
    /\ lastNotify.status = 1
    /\ Entries(lastNotify.maps[1]) = statusMap
    /\ statusMap["s1"] = [status_code |-> 5, last_check |-> 1]
    /\ statusMap["s2"] = [status_code |-> 0, last_check |-> 2]
    /\ statusMap["u1"] = Absent

\* C31: a record stored for a tracked service id stays a record: no step of
\* the coordinator, whether a fetch result, a live message, an error or
\* cleanup, leaves the entry of that id blank
C31_RecordNeverBlanked ==
    [][\A id \in serviceIds : statusMap[id] # Absent => statusMap'[id] # Absent]_vars

\* C32: whenever a socket opens, the first one or one made by a reconnect,
\* exactly one message leaves, on that socket: a subscribe message with the
\* full list of the tracked service ids
C32_SubscribeOnEveryOpen ==
    [][\A i \in DOMAIN sockets :
          WsOpen(i) =>
              lastNotify'.sent =
                  <<[socket |-> i, type |-> "subscribe", services |-> serviceIds]>>]_vars

\* the second socket, made by a reconnect, has just opened and the subscribe
\* message has left on it
C32_Witness ==
    /\ Len(sockets) = 2
    /\ sockets[2] = OPEN
    /\ lastNotify.sent # <<>>
    /\ lastNotify.sent[1].socket = 2
    /\ lastNotify.sent[1].services = serviceIds

\* C33: a status observation for a service, received or displayed by its
\* card, neither adds the service to the outage list nor removes it
C33_OutageSetOnlyByCaller ==
    [][(\/ \E id \in CardIds, code \in CardCodes : ObserveStatus(id, code)
        \/ \E id \in CardIds : RunOutageEffect(id))
       => outageView'.outageService = outageView.outageService]_vars

\* C39: the outage list never holds a service id twice
C39_NoDuplicateOutage ==
    \A i, j \in DOMAIN outageView.outageService :
        outageView.outageService[i] = outageView.outageService[j] => i = j
\* C35: every key of the status map is a tracked service id, whatever batch
\* fetches, single-service fetches and live messages have completed
C35_KeysAreTracked == \A id \in Ids \ serviceIds : statusMap[id] = Absent

\* a step in which a message that parses and names a service the coordinator
\* does not track arrives on the stream or on the socket (no message handler
\* touches the requests in flight or the state of a channel, which is tested
\* first)
UntrackedMessage ==
    /\ inflight' = inflight /\ streams' = streams /\ sockets' = sockets
    /\ \/ \E m \in [type : {"status"}, service_id : Ids \ serviceIds, status : ServiceStatus] :
             \E i \in DOMAIN streams : SseMessage(i, m)
       \/ \E m \in [type : {"status_update"}, service_id : Ids \ serviceIds,
                     status : ServiceStatus \cup {Absent}] :
             \E i \in DOMAIN sockets : WsMessage(i, m)

\* C34: a well-formed live message for a service that is not tracked is
\* ignored on both channel variants: the status map does not change, no
\* subscriber is called and the poll timer is not rescheduled
C34_UntrackedIsIgnored ==
    [][UntrackedMessage =>
          /\ statusMap' = statusMap
          /\ lastNotify'.status = 0 /\ lastNotify'.error = 0
          /\ pollInterval' = pollInterval /\ orphanTimers' = orphanTimers]_vars

\* a message for the untracked id has just been passed over while the channel
\* is open, subscribers are registered, a record is stored and the poll timer
\* is part-way through its period
C34_Witness ==
    /\ lastNotify.ignored = <<"u1">>
    /\ lastNotify.status = 0 /\ lastNotify.error = 0
    /\ statusUpdateCallbacks # {} /\ errorCallbacks # {}
    /\ \/ sseConnection # NoConnection /\ streams[sseConnection] = OPEN
       \/ wsConnection # NoConnection /\ sockets[wsConnection] = OPEN
    /\ statusMap["s1"] # Absent /\ statusMap["u1"] = Absent
    /\ IsTimer(pollInterval) /\ pollInterval.due < pollInterval.period

\* C36: whatever options.fallbackPollInterval is, no poll timer the
\* coordinator holds has a period longer than the base period, the timer an
\* error or close of the channel starts included
C36_AcceleratedNotLonger ==
    IsTimer(pollInterval) => pollInterval.period <= FALLBACK_POLL_INTERVAL

\* C37: once cleanup() has run, no status callback and no error callback is
\* called, whatever fetch, timer or channel event completes afterwards
C37_SilentAfterCleanup ==
    disposed => /\ lastNotify.status = 0 /\ lastNotify.error = 0
                /\ lastNotify.to = {} /\ lastNotify.maps = <<>>

\* cleanup() ran while initialize() waited for its fetch; the response has
\* arrived since (the stream and the poll timer it started are there), records
\* are stored, and nobody was called
C37_Witness ==
    /\ disposed
    /\ initPc = "done"
    /\ IsTimer(pollInterval)
    /\ streams # <<>>
    /\ statusMap["s1"] # Absent /\ statusMap["s2"] # Absent
    /\ inflight = EmptyBag
    /\ lastNotify.status = 0 /\ lastNotify.error = 0

\* C38: every node the detailed view shows is marked outage-affected exactly
\* when it is an outage root or a dependent of an outage root in the full
\* graph, whether the roots are shown or not
C38_DetailedMarkingIsGlobal ==
    queryResult.fn = "detailed" =>
        \A n \in relatedNodes(queryResult.target, nodes, edges) :
            n \in queryResult.result
            <=> \/ n \in queryResult.roots
                \/ \E r \in queryResult.roots :
                       n \in get_downstream_dependents(r, nodes, edges)

\* the sources the App created that are open
OpenSources == {i \in DOMAIN appStream.sources : appStream.sources[i] = OPEN}

\* C40: while the event-stream effect is torn down no source the App created
\* is open, and at no time is more than one of them open
C40_NoStreamAfterTeardown ==
    /\ ~appStream.enabled => OpenSources = {}
    /\ Cardinality(OpenSources) <= 1

====
